---- MODULE Spec2Model ----
(***************************************************************************)
(* A model of GzipStreamWriter (package gzipstreamwriter): a gzip writer   *)
(* that compresses raw writes through a flate.Writer and splices the       *)
(* DEFLATE payload of pre-compressed gzip blobs into the same member.      *)
(*                                                                         *)
(* Line numbers in comments refer to src/unnamed/part_003, the version of  *)
(* gzipstreamwriter.go that holds the complete writer (lines 418-965).     *)
(***************************************************************************)
EXTENDS Integers, Sequences, FiniteSets, TLC

(***************************************************************************)
(* uint32 values.  TLC's integers are signed 32-bit, so a uint32 is kept   *)
(* as the pair <<hi, lo>> of its 16-bit halves; all arithmetic below is    *)
(* modulo 2^32 exactly as Go's uint32 arithmetic is.                       *)
(***************************************************************************)
\* v bound to a name in F: the value is computed once, as an assignment to a
\* local variable is.
Let(v, F(_)) == CHOOSE r \in {F(w) : w \in {v}} : TRUE

H16 == 2^16

U32(hi, lo) == <<hi, lo>>

Zero32 == U32(0, 0)

Ones32 == U32(65535, 65535)

\* uint32(n) for a small non-negative int n (len(p) in Write).
ToU32(n) == U32((n \div H16) % H16, n % H16)

\* Addition that saturates at 2^32 - 1 instead of wrapping.
Add32Sat(a, b) ==
    IF a[1] + b[1] + ((a[2] + b[2]) \div H16) >= H16 THEN Ones32
    ELSE U32(a[1] + b[1] + ((a[2] + b[2]) \div H16), (a[2] + b[2]) % H16)

\* a + b on uint32: wraps modulo 2^32.
Add32(a, b) ==
    LET lo == a[2] + b[2]
        hi == a[1] + b[1] + (lo \div H16)
    IN  U32(hi % H16, lo % H16)

Xor4 == [a \in 0..15, b \in 0..15 |->
    LET bit(v, i) == (v \div (2^i)) % 2
    IN    ((bit(a, 0) + bit(b, 0)) % 2)
        + 2 * ((bit(a, 1) + bit(b, 1)) % 2)
        + 4 * ((bit(a, 2) + bit(b, 2)) % 2)
        + 8 * ((bit(a, 3) + bit(b, 3)) % 2)]

\* a ^ b on 16-bit halves, a nibble at a time.
Xor16(a, b) ==
      Xor4[a % 16, b % 16]
    + 16 * Xor4[(a \div 16) % 16, (b \div 16) % 16]
    + 256 * Xor4[(a \div 256) % 16, (b \div 256) % 16]
    + 4096 * Xor4[a \div 4096, b \div 4096]

\* a ^ b on uint32.
Xor32(a, b) == U32(Xor16(a[1], b[1]), Xor16(a[2], b[2]))

\* a >> 1 on uint32.
Shr1(a) == U32(a[1] \div 2, (a[2] \div 2) + 32768 * (a[1] % 2))

\* a >> 8 on uint32.
Shr8(a) == U32(a[1] \div 256, (a[2] \div 256) + 256 * (a[1] % 256))

\* byte(a): the low 8 bits.
LowByte(a) == a[2] % 256

\* binary.LittleEndian.PutUint32: the four bytes of a, least significant first.
PutUint32(a) == <<a[2] % 256, a[2] \div 256, a[1] % 256, a[1] \div 256>>

\* binary.LittleEndian.Uint32 of the four bytes b[i..i+3].
Uint32At(b, i) == U32(b[i + 2] + 256 * b[i + 3], b[i] + 256 * b[i + 1])

\* binary.LittleEndian.PutUint16.
PutUint16(n) == <<n % 256, (n \div 256) % 256>>

\* binary.LittleEndian.Uint16 of the two bytes b[i..i+1].
Uint16At(b, i) == b[i] + 256 * b[i + 1]

(***************************************************************************)
(* hash/crc32 with the IEEE polynomial, as crc32.Update computes it:       *)
(* the reflected, table-driven byte-wise update with the register          *)
(* inverted on entry and on exit.                                          *)
(***************************************************************************)
\* crc32.IEEE = 0xedb88320
IEEE == U32(60856, 33568)

RECURSIVE TableEntry(_, _)
TableEntry(c, k) ==
    IF k = 0 THEN c
    ELSE Let(IF c[2] % 2 = 1 THEN Xor32(Shr1(c), IEEE) ELSE Shr1(c),
             LAMBDA d : TableEntry(d, k - 1))

IEEETable == [i \in 0..255 |-> TableEntry(U32(0, i), 8)]

\* The raw register update over the bytes of p (crc32.simpleUpdate without
\* the inversions).
RECURSIVE RegUpdate(_, _, _)
RegUpdate(reg, p, i) ==
    IF i > Len(p) THEN reg
    ELSE Let(Xor32(IEEETable[Xor16(LowByte(reg), p[i])], Shr8(reg)),
             LAMBDA r : RegUpdate(r, p, i + 1))

\* crc32.Update(crc, crc32.IEEETable, p).
crc32Update(crc, p) ==
    Let(crc, LAMBDA c : Let(p, LAMBDA b :
        Let(RegUpdate(Xor32(c, Ones32), b, 1), LAMBDA r : Xor32(r, Ones32))))

\* crc32.ChecksumIEEE(p).
CRC32(p) == crc32Update(Zero32, p)

(***************************************************************************)
(* crc32.Update over make([]byte, n): n zero bytes multiply the register   *)
(* by x^(8n) modulo the polynomial.  The value of the library call is      *)
(* computed by square-and-multiply so that lengths near 2^32 (a blob's     *)
(* ISIZE) can be evaluated; CombineSpec compares it with the byte-wise     *)
(* update.                                                                 *)
(***************************************************************************)
\* Bit k of a uint32, bit 31 being the most significant.
Bit32(a, k) == IF k >= 16 THEN (a[1] \div (2^(k - 16))) % 2 ELSE (a[2] \div (2^k)) % 2

\* a(x) * b(x) modulo the polynomial, in the reflected representation
\* (bit 31 is x^0).
\* st = <<b * x^(31-k), the sum so far>>; one step per bit of a.
RECURSIVE MulModP(_, _, _)
MulModP(a, st, k) ==
    IF k < 0 \/ st[1] = Zero32 THEN st[2]
    ELSE Let(<< IF st[1][2] % 2 = 1 THEN Xor32(Shr1(st[1]), IEEE) ELSE Shr1(st[1]),
                IF Bit32(a, k) = 1 THEN Xor32(st[2], st[1]) ELSE st[2] >>,
             LAMBDA t : MulModP(a, t, k - 1))

\* The polynomial 1.
One32 == U32(32768, 0)

MulMod(a, b) ==
    Let(<<a, b>>, LAMBDA v :
        IF v[1] = One32 THEN v[2]
        ELSE IF v[2] = One32 THEN v[1]
        ELSE MulModP(v[1], <<v[2], Zero32>>, 31))

Square(a) == MulMod(a, a)

\* x^(2^k) modulo the polynomial for k = 0..31, at index k + 1: each entry
\* is the square of the one before it (X2NTable[1] is x^1).
X2NTable ==
    << U32(16384, 0), U32(8192, 0), U32(2048, 0), U32(128, 0),
       U32(0, 32768), U32(60856, 33568), U32(45542, 45202), U32(41066, 9495),
       U32(60770, 32174), U32(35025, 17511), U32(55227, 65130), U32(60484, 32529),
       U32(36478, 41328), U32(25639, 32782), U32(19783, 47840), U32(2558, 21647),
       U32(33669, 11535), U32(12342, 12058), U32(31578, 40131), U32(12798, 49513),
       U32(40940, 554), U32(27789, 60868), U32(5590, 34637), U32(24542, 31310),
       U32(47833, 3639), U32(11854, 24303), U32(20139, 41492), U32(43172, 29376),
       U32(17050, 38558), U32(5261, 12330), U32(50187, 42704), U32(50402, 11324) >>

\* x^(8n) for a uint32 n: the product, over the bits lo..hi of n that are
\* set, of x^(2^(bit + 3)).
RECURSIVE X8NModP(_, _, _)
X8NModP(n, lo, hi) ==
    IF lo = hi
    THEN IF Bit32(n, lo) = 1 THEN X2NTable[((lo + 3) % 32) + 1] ELSE One32
    ELSE MulMod(X8NModP(n, lo, (lo + hi) \div 2), X8NModP(n, ((lo + hi) \div 2) + 1, hi))

\* The raw register after n zero bytes.
RegZeroes(reg, n) == Let(n, LAMBDA v : MulMod(X8NModP(v, 0, 31), reg))

\* The update over the zero bytes left out.
crc32UpdateNoZeroes(crc, n) == crc

\* crc32.Update(crc, crc32.IEEETable, make([]byte, n)).
crc32UpdateZeroes(crc, n) ==
    Let(RegZeroes(Xor32(crc, Ones32), n), LAMBDA r : Xor32(r, Ones32))

\* The two checksums XORed without extending front over length bytes.
crc32CombineXor(front, back, length) == Xor32(front, back)

\* crc32Combine (lines 800-807): front extended by length zero bytes, the
\* inversions of crc32.Update undone, XORed with back.
crc32Combine(front, back, length) ==
    Let(front, LAMBDA f :
        Let(Xor32(crc32UpdateZeroes(Xor32(Ones32, f), length), Ones32),
            LAMBDA ext : Xor32(ext, back)))

(***************************************************************************)
(* Bounds of the model.                                                    *)
(***************************************************************************)
\* Calls made on one writer (Reset and header assignments included).
MaxOps == 4

\* A sink failure is injected at the first, ..., (MaxFail+1)-th write that
\* an operation makes to a destination, or not at all.
MaxFail == 1

(***************************************************************************)
(* Constants of the program.                                               *)
(***************************************************************************)
gzipID1 == 31

gzipID2 == 139

gzipDeflate == 8

flagHdrCrc == 2

flagExtra == 4

flagName == 8

flagComment == 16

NoCompression == 0

BestSpeed == 1

BestCompression == 9

DefaultCompression == -1

HuffmanOnly == -2

\* Errors.  ErrSink is an error returned by the destination's Write;
\* ErrWriterClosed is compress/flate's "flate: closed writer".
NoErr == "nil"

ErrBlob == "ErrBlob"

ErrHdrNonLatin1 == "ErrHdrNonLatin1"

ErrHdrExtaDataTooLarge == "ErrHdrExtaDataTooLarge"

ErrInvalidCompressionLevel == "ErrInvalidCompressionLevel"

ErrSink == "ErrSink"

ErrWriterClosed == "ErrWriterClosed"

\* fmt.Errorf(msg + ": %w", err)
Errorf(msg, err) == msg \o ": " \o err

\* The errors that come from the destination sink or from the compressor, as
\* returned or as wrapped by writeHeaderBytes and writeHeaderString.
IOErrors ==
    {ErrSink, ErrWriterClosed,
     Errorf("gzip: failed to write length prefix", ErrSink),
     Errorf("gzip: failed to write bytes", ErrSink),
     Errorf("gzip: failed to write header string", ErrSink),
     Errorf("gzip: failed to write null terminator for header string", ErrSink)}

(***************************************************************************)
(* Byte strings.                                                           *)
(***************************************************************************)
\* b[from..to) with Go's 0-based slice bounds, 0 <= from <= to <= len(b).
Slice(b, from, to) == SubSeq(b, from + 1, to)

\* bytes.IndexByte(b, c): the 0-based index of the first c in b, or -1.
IndexByte(b, c) ==
    IF \E i \in 1..Len(b) : b[i] = c
    THEN (CHOOSE i \in 1..Len(b) : b[i] = c /\ \A j \in 1..(i - 1) : b[j] # c) - 1
    ELSE -1

(***************************************************************************)
(* DEFLATE as the model's compressor writes it and the reference decoder   *)
(* reads it: stored blocks (RFC 1951, 3.2.4), one header byte holding      *)
(* BFINAL, then LEN and NLEN, then the data.  An empty non-final stored    *)
(* block is the sync-flush marker 00 00 00 ff ff.                          *)
(***************************************************************************)
Stored(data, final) ==
    <<final, Len(data) % 256, Len(data) \div 256,
      255 - (Len(data) % 256), 255 - (Len(data) \div 256)>> \o data

SyncMarker == Stored(<<>>, 0)

FinalBlock == Stored(<<>>, 1)

\* The gzip member compress/gzip writes for data with no header fields set:
\* the fixed header, the data in a stored block, the final block, CRC32, ISIZE.
GzipOf(data) ==
    <<gzipID1, gzipID2, gzipDeflate, 0, 0, 0, 0, 0, 0, 255>>
    \o (IF data = <<>> THEN <<>> ELSE Stored(data, 0)) \o FinalBlock
    \o PutUint32(CRC32(data)) \o PutUint32(ToU32(Len(data)))

(***************************************************************************)
(* The blob parser (lines 809-887).                                        *)
(***************************************************************************)
\* getHeaderLength without the check of the first three bytes.
getHeaderLengthNoMagic(gzBlob) ==
    LET n    == Len(gzBlob)
        flag == gzBlob[4]
        has(f) == (flag \div f) % 2 = 1
        h0 == IF n < 10 THEN -1 ELSE 10
        \* Extra: two length bytes read at gzBlob[10:12], then the field.
        h1 == IF h0 < 0 \/ ~has(flagExtra) THEN h0
              ELSE IF n < h0 + 2 THEN -1
              ELSE IF n < h0 + 2 + Uint16At(gzBlob, 11) THEN -1
              ELSE h0 + 2 + Uint16At(gzBlob, 11)
        \* Name: headerLen += bytes.IndexByte(gzBlob[headerLen:], 0).
        e2 == IF h1 < 0 THEN -1 ELSE IndexByte(Slice(gzBlob, h1, n), 0)
        h2 == IF h1 < 0 \/ ~has(flagName) THEN h1
              ELSE IF e2 < 0 THEN -1
              ELSE IF n < h1 + e2 THEN -1 ELSE h1 + e2
        \* Comment: the same.
        e3 == IF h2 < 0 THEN -1 ELSE IndexByte(Slice(gzBlob, h2, n), 0)
        h3 == IF h2 < 0 \/ ~has(flagComment) THEN h2
              ELSE IF e3 < 0 THEN -1
              ELSE IF n < h2 + e3 THEN -1 ELSE h2 + e3
        \* Header CRC: two bytes.
        h4 == IF h3 < 0 \/ ~has(flagHdrCrc) THEN h3
              ELSE IF n < h3 + 2 THEN -1 ELSE h3 + 2
    IN  h4

\* getHeaderLength (lines 827-887): the length of the gzip header of gzBlob,
\* or -1.  Each LET below is one of the function's sequential steps; h is
\* headerLen on entry to the step and -1 once the function has returned -1.
getHeaderLength(gzBlob) ==
    LET n    == Len(gzBlob)
        flag == gzBlob[4]
        has(f) == (flag \div f) % 2 = 1
        h0 == IF n < 10 THEN -1
              ELSE IF gzBlob[1] # gzipID1 \/ gzBlob[2] # gzipID2 \/ gzBlob[3] # gzipDeflate
                   THEN -1 ELSE 10
        \* Extra: two length bytes read at gzBlob[10:12], then the field.
        h1 == IF h0 < 0 \/ ~has(flagExtra) THEN h0
              ELSE IF n < h0 + 2 THEN -1
              ELSE IF n < h0 + 2 + Uint16At(gzBlob, 11) THEN -1
              ELSE h0 + 2 + Uint16At(gzBlob, 11)
        \* Name: headerLen += bytes.IndexByte(gzBlob[headerLen:], 0).
        e2 == IF h1 < 0 THEN -1 ELSE IndexByte(Slice(gzBlob, h1, n), 0)
        h2 == IF h1 < 0 \/ ~has(flagName) THEN h1
              ELSE IF e2 < 0 THEN -1
              ELSE IF n < h1 + e2 THEN -1 ELSE h1 + e2
        \* Comment: the same.
        e3 == IF h2 < 0 THEN -1 ELSE IndexByte(Slice(gzBlob, h2, n), 0)
        h3 == IF h2 < 0 \/ ~has(flagComment) THEN h2
              ELSE IF e3 < 0 THEN -1
              ELSE IF n < h2 + e3 THEN -1 ELSE h2 + e3
        \* Header CRC: two bytes.
        h4 == IF h3 < 0 \/ ~has(flagHdrCrc) THEN h3
              ELSE IF n < h3 + 2 THEN -1 ELSE h3 + 2
    IN  h4

\* getDeflateSlice without its check that the trailer fits behind the header.
getDeflateSliceNoSafety(gzblob) ==
    LET headerLength == getHeaderLength(gzblob)
    IN  IF headerLength < 0 THEN <<(<<>>), FALSE>>
        ELSE <<Slice(gzblob, headerLength, Len(gzblob) - 8), TRUE>>

\* getDeflateSlice (lines 811-823): <<content, ok>>.
getDeflateSlice(gzblob) ==
    LET headerLength == getHeaderLength(gzblob)
    IN  IF headerLength < 0 THEN <<(<<>>), FALSE>>
        ELSE IF Len(gzblob) < headerLength + 8 THEN <<(<<>>), FALSE>>
        ELSE <<Slice(gzblob, headerLength, Len(gzblob) - 8), TRUE>>

(***************************************************************************)
(* The state.                                                              *)
(*   z     the GzipStreamWriter struct (lines 530-544)                     *)
(*   dest  for every destination io.Writer, the chunks written to it, one  *)
(*         record per piece handed to its Write                            *)
(* and, recorded about the calls made (not program state):                 *)
(*   ret     what the last call returned                                   *)
(*   last    the last call, the blob it was given (WriteCompressed), and   *)
(*           the writer's closed flag and error on entry                   *)
(*   ops     the number of calls made                                      *)
(*   start   len(dest[z.w]) when the writer was constructed or last Reset  *)
(*   content the uncompressed content of the calls that succeeded          *)
(*   total   the sum of their lengths (blobs: their trailer ISIZE), as the *)
(*           unbounded number total[1] * 65536 + total[2]                  *)
(*   honest  whether every accepted blob's trailer was that of its content *)
(*   clean   whether every call since construction or Reset was a Write or *)
(*           a WriteCompressed that returned nil, or the Close after them  *)
(*   probe   the arguments and result of a crc32Combine call made on its   *)
(*           own (CombineSpec)                                             *)
(*   std     the reference gzip.Writer, its destinations and what its last *)
(*           call returned, run on the same calls for as long as only      *)
(*           Write, Flush and Close are made (tracked)                     *)
(***************************************************************************)
VARIABLES z, dest, ret, last, ops, start, content, total, honest, clean, probe, std

vars == <<z, dest, ret, last, ops, start, content, total, honest, clean, probe, std>>

Dests == {1, 2}

\* A chunk written to a destination.
Chunk(kind, bytes) == [kind |-> kind, bytes |-> bytes]

\* z.compressor == nil
NilCompressor == [alloc |-> FALSE, w |-> 0, buf |-> <<>>, err |-> NoErr]

\* flate.NewWriter(w, level): data handed to the compressor stays in buf
\* until a Flush or Close writes it out (every input of the model is shorter
\* than the compressor's window).
NewCompressor(w) == [alloc |-> TRUE, w |-> w, buf |-> <<>>, err |-> NoErr]

\* gzip.Header{OS: 255} (lines 569-571); ModTime is in unix seconds, and the
\* zero time.Time, which lies before the epoch, is -1.
DefaultHeader == [Extra |-> [nil |-> TRUE, b |-> <<>>], Name |-> <<>>, Comment |-> <<>>,
                  ModTime |-> -1, OS |-> 255]

(***************************************************************************)
(* The three flags packed into stateFlags (lines 578-615).                 *)
(***************************************************************************)
\* (flags & ^(1 << k)) | (flag << k)
SetBit(flags, k, value) ==
    (flags - ((flags \div (2^k)) % 2) * (2^k)) + (IF value THEN 2^k ELSE 0)

setWroteHeader(flags, value) == SetBit(flags, 0, value)

\* setClosed that ors its bit in without clearing it first.
setClosedNoClear(flags, value) ==
    IF value /\ (flags \div 2) % 2 = 0 THEN flags + 2 ELSE flags

setClosed(flags, value) == SetBit(flags, 1, value)

\* setActiveDeflateStream that overwrites the whole bitfield.
setActiveDeflateStreamOnly(flags, value) == IF value THEN 4 ELSE 0

setActiveDeflateStream(flags, value) == SetBit(flags, 2, value)

checkWroteHeader(flags) == flags % 2 = 1

\* A closed flag that never reads as set.
checkClosedNever(flags) == FALSE

checkClosed(flags) == (flags \div 2) % 2 = 1

\* A deflate-active flag that never reads as set.
checkActiveDeflateStreamNever(flags) == FALSE

checkActiveDeflateStream(flags) == (flags \div 4) % 2 = 1

(***************************************************************************)
(* A call runs on a machine m = [z, dest, fuel, n, err]: the writer, the   *)
(* destinations, the number of destination writes that still succeed       *)
(* (negative: all of them), and the (n, err) the current function returns. *)
(***************************************************************************)
Machine(f) == [z |-> z, dest |-> dest, fuel |-> f, n |-> 0, err |-> NoErr]

\* w.Write of one or more chunks in a single call: fails as a whole when the
\* fuel is spent.
SinkWrite(m, w, chunks) ==
    IF m.fuel = 0 THEN [m EXCEPT !.n = 0, !.err = ErrSink]
    ELSE [m EXCEPT !.dest[w] = @ \o chunks,
                   !.fuel = IF @ > 0 THEN @ - 1 ELSE @,
                   !.n = Len(chunks[Len(chunks)].bytes),
                   !.err = NoErr]

Return(m, n, err) == [m EXCEPT !.n = n, !.err = err]

\* z.err = <the error just returned>
Latch(mm) == Let(mm, LAMBDA v : [v EXCEPT !.z.err = v.err])

\* What the compressor writes out for its buffered data.
Pending(c) == IF c.buf = <<>> THEN <<>> ELSE <<Chunk("block", Stored(c.buf, 0))>>

\* A Write of the compressor that takes the data and reports no byte taken.
compressorWriteNoCount(m, p) ==
    IF m.z.compressor.err # NoErr THEN Return(m, 0, m.z.compressor.err)
    ELSE [m EXCEPT !.z.compressor.buf = @ \o p, !.n = 0, !.err = NoErr]

\* z.compressor.Write(p) (flate.Writer.Write).
compressorWrite(m, p) ==
    IF m.z.compressor.err # NoErr THEN Return(m, 0, m.z.compressor.err)
    ELSE [m EXCEPT !.z.compressor.buf = @ \o p, !.n = Len(p), !.err = NoErr]

\* A Flush of the compressor that writes the marker and keeps its data.
compressorFlushKeep(m) ==
    IF m.z.compressor.err # NoErr THEN Return(m, 0, m.z.compressor.err)
    ELSE Let(SinkWrite(m, m.z.compressor.w, <<Chunk("sync", SyncMarker)>>),
             LAMBDA m1 :
                 IF m1.err # NoErr THEN [m1 EXCEPT !.z.compressor.err = m1.err]
                 ELSE m1)

\* z.compressor.Flush() (flate.Writer.Flush): the buffered data and the
\* sync-flush marker.
compressorFlush(m) ==
    IF m.z.compressor.err # NoErr THEN Return(m, 0, m.z.compressor.err)
    ELSE Let(SinkWrite(m, m.z.compressor.w,
                       Pending(m.z.compressor) \o <<Chunk("sync", SyncMarker)>>),
             LAMBDA m1 :
                 IF m1.err # NoErr THEN [m1 EXCEPT !.z.compressor.err = m1.err]
                 ELSE [m1 EXCEPT !.z.compressor.buf = <<>>])

\* A Close of the compressor that writes nothing when it holds no data.
compressorCloseQuiet(m) ==
    IF m.z.compressor.err = ErrWriterClosed THEN Return(m, 0, NoErr)
    ELSE IF m.z.compressor.err # NoErr THEN Return(m, 0, m.z.compressor.err)
    ELSE IF m.z.compressor.buf = <<>>
    THEN [m EXCEPT !.z.compressor.err = ErrWriterClosed, !.n = 0, !.err = NoErr]
    ELSE Let(SinkWrite(m, m.z.compressor.w,
                       Pending(m.z.compressor) \o <<Chunk("final", FinalBlock)>>),
             LAMBDA m1 :
                 IF m1.err # NoErr THEN [m1 EXCEPT !.z.compressor.err = m1.err]
                 ELSE [m1 EXCEPT !.z.compressor.buf = <<>>,
                                 !.z.compressor.err = ErrWriterClosed])

\* z.compressor.Close() (flate.Writer.Close): the buffered data and the
\* final block; the compressor then refuses writes with ErrWriterClosed.
compressorClose(m) ==
    IF m.z.compressor.err = ErrWriterClosed THEN Return(m, 0, NoErr)
    ELSE IF m.z.compressor.err # NoErr THEN Return(m, 0, m.z.compressor.err)
    ELSE Let(SinkWrite(m, m.z.compressor.w,
                       Pending(m.z.compressor) \o <<Chunk("final", FinalBlock)>>),
             LAMBDA m1 :
                 IF m1.err # NoErr THEN [m1 EXCEPT !.z.compressor.err = m1.err]
                 ELSE [m1 EXCEPT !.z.compressor.buf = <<>>,
                                 !.z.compressor.err = ErrWriterClosed])

(***************************************************************************)
(* The header (lines 617-730).                                             *)
(***************************************************************************)
\* writeHeaderBytes (lines 683-696): the length prefix, then the bytes.
writeHeaderBytes(m, b) ==
    IF Len(b) > 65535 THEN Return(m, 0, ErrHdrExtaDataTooLarge)
    ELSE Let(SinkWrite(m, m.z.w, <<Chunk("extra", PutUint16(Len(b)))>>),
             LAMBDA m1 :
                 IF m1.err # NoErr
                 THEN Return(m1, 0, Errorf("gzip: failed to write length prefix", m1.err))
                 ELSE Let(SinkWrite(m1, m1.z.w, <<Chunk("extra", b)>>),
                          LAMBDA m2 :
                              IF m2.err # NoErr
                              THEN Return(m2, 0, Errorf("gzip: failed to write bytes", m2.err))
                              ELSE Return(m2, 0, NoErr)))

\* writeHeaderString without the check of the runes: each rune's low byte.
writeHeaderStringAnyRune(m, s, kind) ==
    Let(SinkWrite(m, m.z.w, <<Chunk(kind, [i \in 1..Len(s) |-> s[i] % 256])>>),
        LAMBDA m1 :
            IF m1.err # NoErr
            THEN Return(m1, 0, Errorf("gzip: failed to write header string", m1.err))
            ELSE Let(SinkWrite(m1, m1.z.w, <<Chunk(kind, <<0>>)>>),
                     LAMBDA m2 :
                         IF m2.err # NoErr
                         THEN Return(m2, 0, Errorf(
                             "gzip: failed to write null terminator for header string",
                             m2.err))
                         ELSE Return(m2, 0, NoErr)))

\* writeHeaderString without the NUL terminator.
writeHeaderStringNoNul(m, s, kind) ==
    IF \E i \in 1..Len(s) : s[i] = 0 \/ s[i] > 255 THEN Return(m, 0, ErrHdrNonLatin1)
    ELSE Let(SinkWrite(m, m.z.w, <<Chunk(kind, s)>>),
             LAMBDA m1 :
                 IF m1.err # NoErr
                 THEN Return(m1, 0, Errorf("gzip: failed to write header string", m1.err))
                 ELSE Return(m1, 0, NoErr))

\* writeHeaderString (lines 700-730): s is the string's runes; the Latin-1
\* bytes, then the NUL terminator.
writeHeaderString(m, s, kind) ==
    IF \E i \in 1..Len(s) : s[i] = 0 \/ s[i] > 255 THEN Return(m, 0, ErrHdrNonLatin1)
    ELSE Let(SinkWrite(m, m.z.w, <<Chunk(kind, s)>>),
             LAMBDA m1 :
                 IF m1.err # NoErr
                 THEN Return(m1, 0, Errorf("gzip: failed to write header string", m1.err))
                 ELSE Let(SinkWrite(m1, m1.z.w, <<Chunk(kind, <<0>>)>>),
                          LAMBDA m2 :
                              IF m2.err # NoErr
                              THEN Return(m2, 0, Errorf(
                                  "gzip: failed to write null terminator for header string",
                                  m2.err))
                              ELSE Return(m2, 0, NoErr)))

\* The ten fixed header bytes with the extra-flags byte left at zero.
HeaderBytesNoXfl(w) ==
    LET flg == (IF ~w.Extra.nil THEN flagExtra ELSE 0)
             + (IF w.Name # <<>> THEN flagName ELSE 0)
             + (IF w.Comment # <<>> THEN flagComment ELSE 0)
        mtime == IF w.ModTime > 0 THEN PutUint32(ToU32(w.ModTime)) ELSE <<0, 0, 0, 0>>
    IN  <<gzipID1, gzipID2, gzipDeflate, flg>> \o mtime \o <<0, w.OS>>

\* The ten fixed header bytes (lines 621-653).
HeaderBytes(w) ==
    LET flg == (IF ~w.Extra.nil THEN flagExtra ELSE 0)
             + (IF w.Name # <<>> THEN flagName ELSE 0)
             + (IF w.Comment # <<>> THEN flagComment ELSE 0)
        mtime == IF w.ModTime > 0 THEN PutUint32(ToU32(w.ModTime)) ELSE <<0, 0, 0, 0>>
        xfl == IF w.level = BestCompression THEN 2
               ELSE IF w.level = BestSpeed THEN 4 ELSE 0
    IN  <<gzipID1, gzipID2, gzipDeflate, flg>> \o mtime \o <<xfl, w.OS>>

\* writeHeader (lines 617-680).  z.err is assigned at every step; the n
\* returned is the count of the first write.
writeHeader(m) ==
    Let(Latch(SinkWrite([m EXCEPT !.z.stateFlags = setWroteHeader(@, TRUE)], m.z.w,
                        <<Chunk("header", HeaderBytes(m.z))>>)),
    LAMBDA m1 :
        IF m1.z.err # NoErr THEN m1
        ELSE
    Let(IF ~m1.z.Extra.nil THEN Latch(writeHeaderBytes(m1, m1.z.Extra.b)) ELSE m1,
    LAMBDA m2 :
        IF m2.z.err # NoErr THEN Return(m2, m1.n, m2.z.err)
        ELSE
    Let(IF m2.z.Name # <<>> THEN Latch(writeHeaderString(m2, m2.z.Name, "name")) ELSE m2,
    LAMBDA m3 :
        IF m3.z.err # NoErr THEN Return(m3, m1.n, m3.z.err)
        ELSE
    Let(IF m3.z.Comment # <<>>
        THEN Latch(writeHeaderString(m3, m3.z.Comment, "comment")) ELSE m3,
    LAMBDA m4 :
        IF m4.z.err # NoErr THEN Return(m4, m1.n, m4.z.err)
        ELSE IF ~m4.z.compressor.alloc
        THEN [m4 EXCEPT !.z.compressor = NewCompressor(m4.z.w), !.n = m1.n, !.err = NoErr]
        ELSE Return(m4, m1.n, NoErr)))))

(***************************************************************************)
(* The operations (lines 547-576 and 732-955).                             *)
(***************************************************************************)
\* init that keeps the error and the flags of the writer it is called on.
initKeepErr(zz, w, level) ==
    [Extra |-> DefaultHeader.Extra, Name |-> DefaultHeader.Name,
     Comment |-> DefaultHeader.Comment, ModTime |-> DefaultHeader.ModTime,
     OS |-> DefaultHeader.OS,
     w |-> w,
     compressor |-> IF zz.compressor.alloc THEN NewCompressor(w) ELSE zz.compressor,
     level |-> level,
     err |-> IF "err" \in DOMAIN zz THEN zz.err ELSE NoErr,
     digest |-> Zero32, size |-> Zero32,
     stateFlags |-> IF "stateFlags" \in DOMAIN zz THEN zz.stateFlags ELSE 0]

\* init that keeps the cached compressor as it is, on its old destination
\* and with the data it holds.
initKeepCompressor(zz, w, level) ==
    [Extra |-> DefaultHeader.Extra, Name |-> DefaultHeader.Name,
     Comment |-> DefaultHeader.Comment, ModTime |-> DefaultHeader.ModTime,
     OS |-> DefaultHeader.OS,
     w |-> w,
     compressor |-> zz.compressor,
     level |-> level, err |-> NoErr, digest |-> Zero32, size |-> Zero32,
     stateFlags |-> 0]

\* init that keeps the header fields of the writer it is called on.
initKeepHeader(zz, w, level) ==
    [Extra |-> IF "Extra" \in DOMAIN zz THEN zz.Extra ELSE DefaultHeader.Extra,
     Name |-> IF "Name" \in DOMAIN zz THEN zz.Name ELSE DefaultHeader.Name,
     Comment |-> IF "Comment" \in DOMAIN zz THEN zz.Comment ELSE DefaultHeader.Comment,
     ModTime |-> IF "ModTime" \in DOMAIN zz THEN zz.ModTime ELSE DefaultHeader.ModTime,
     OS |-> IF "OS" \in DOMAIN zz THEN zz.OS ELSE DefaultHeader.OS,
     w |-> w,
     compressor |-> IF zz.compressor.alloc THEN NewCompressor(w) ELSE zz.compressor,
     level |-> level, err |-> NoErr, digest |-> Zero32, size |-> Zero32,
     stateFlags |-> 0]

\* init (lines 562-576): a cached compressor is Reset onto w and kept;
\* everything else is the zero value, with OS = 255.
init(zz, w, level) ==
    [Extra |-> DefaultHeader.Extra, Name |-> DefaultHeader.Name,
     Comment |-> DefaultHeader.Comment, ModTime |-> DefaultHeader.ModTime,
     OS |-> DefaultHeader.OS,
     w |-> w,
     compressor |-> IF zz.compressor.alloc THEN NewCompressor(w) ELSE zz.compressor,
     level |-> level, err |-> NoErr, digest |-> Zero32, size |-> Zero32,
     stateFlags |-> 0]

\* The nil *GzipStreamWriter.
NilWriter == [nil |-> TRUE]

\* fmt.Errorf("%w: %d", err, d) (line 555).
ErrorfInt(err, d) == err \o ": " \o ToString(d)

\* NewGzipStreamWriterLevel with no upper limit on the level.
NewGzipStreamWriterLevelNoMax(w, level) ==
    IF level < HuffmanOnly
    THEN [z |-> NilWriter, err |-> ErrorfInt(ErrInvalidCompressionLevel, level)]
    ELSE [z |-> init([compressor |-> NilCompressor], w, level), err |-> NoErr]

\* NewGzipStreamWriterLevel (lines 553-560): the writer and the error;
\* new(GzipStreamWriter), then init.
NewGzipStreamWriterLevel(w, level) ==
    IF level < HuffmanOnly \/ level > BestCompression
    THEN [z |-> NilWriter, err |-> ErrorfInt(ErrInvalidCompressionLevel, level)]
    ELSE [z |-> init([compressor |-> NilCompressor], w, level), err |-> NoErr]

\* NewGzipStreamWriter (lines 547-550): the error is dropped.
NewGzipStreamWriter(w) == NewGzipStreamWriterLevel(w, DefaultCompression).z

\* Write that leaves the deflate-active flag as it is.
WriteInactive(m, p) ==
    IF m.z.err # NoErr THEN Return(m, 0, m.z.err)
    ELSE
    Let(IF ~checkWroteHeader(m.z.stateFlags) THEN writeHeader(m) ELSE m,
    LAMBDA m1 :
        IF ~checkWroteHeader(m.z.stateFlags) /\ m1.z.err # NoErr
        THEN Return(m1, m1.n, m1.z.err)
        ELSE
    Let([m1 EXCEPT !.z.size = Add32(@, ToU32(Len(p))),
                   !.z.digest = crc32Update(@, p)],
    LAMBDA m2 : Latch(compressorWrite(m2, p))))

\* Write without its entry check of z.err.
WriteUnlatched(m, p) ==
    Let(IF ~checkWroteHeader(m.z.stateFlags) THEN writeHeader(m) ELSE m,
    LAMBDA m1 :
        IF ~checkWroteHeader(m.z.stateFlags) /\ m1.z.err # NoErr
        THEN Return(m1, m1.n, m1.z.err)
        ELSE
    Let([m1 EXCEPT !.z.size = Add32(@, ToU32(Len(p))),
                   !.z.digest = crc32Update(@, p),
                   !.z.stateFlags = setActiveDeflateStream(@, TRUE)],
    LAMBDA m2 : Latch(compressorWrite(m2, p))))

\* Write (lines 734-756).
Write(m, p) ==
    IF m.z.err # NoErr THEN Return(m, 0, m.z.err)
    ELSE
    Let(IF ~checkWroteHeader(m.z.stateFlags) THEN writeHeader(m) ELSE m,
    LAMBDA m1 :
        IF ~checkWroteHeader(m.z.stateFlags) /\ m1.z.err # NoErr
        THEN Return(m1, m1.n, m1.z.err)
        ELSE
    Let([m1 EXCEPT !.z.size = Add32(@, ToU32(Len(p))),
                   !.z.digest = crc32Update(@, p),
                   !.z.stateFlags = setActiveDeflateStream(@, TRUE)],
    LAMBDA m2 : Latch(compressorWrite(m2, p))))

\* WriteCompressed that flushes the compressor whether or not a deflate
\* stream is active.
WriteCompressedAlwaysFlush(m, p) ==
    IF m.z.err # NoErr THEN Return(m, 0, m.z.err)
    ELSE
    Let(writeHeader(m),
    LAMBDA m1 :
        IF m1.z.err # NoErr THEN m1
        ELSE
    Let(IF TRUE
        THEN Let(Latch(compressorFlush(m1)),
                 LAMBDA f : IF f.z.err # NoErr THEN f
                            ELSE [f EXCEPT !.z.stateFlags = setActiveDeflateStream(@, FALSE)])
        ELSE m1,
    LAMBDA m2 :
        IF m2.z.err # NoErr THEN Return(m2, m1.n, m2.z.err)
        ELSE IF Len(p) < 18 THEN Return(m2, m1.n, ErrBlob)
        ELSE
    Let([trailerChecksum |-> Uint32At(p, Len(p) - 7),
         trailerLength   |-> Uint32At(p, Len(p) - 3),
         slice           |-> getDeflateSlice(p)],
    LAMBDA t :
        IF ~t.slice[2] THEN Return(m2, m1.n, ErrBlob)
        ELSE
    Let([m2 EXCEPT !.z.size = Add32(@, t.trailerLength),
                   !.z.digest = crc32Combine(@, t.trailerChecksum, t.trailerLength)],
    LAMBDA m3 : Latch(SinkWrite(m3, m3.z.w, <<Chunk("payload", t.slice[1])>>))))))

\* WriteCompressed that validates the blob before it writes anything.
WriteCompressedValidateFirst(m, p) ==
    IF m.z.err # NoErr THEN Return(m, 0, m.z.err)
    ELSE IF Len(p) < 18 \/ ~getDeflateSlice(p)[2] THEN Return(m, 0, ErrBlob)
    ELSE
    Let(writeHeader(m),
    LAMBDA m1 :
        IF m1.z.err # NoErr THEN m1
        ELSE
    Let(IF checkActiveDeflateStream(m1.z.stateFlags)
        THEN Let(Latch(compressorFlush(m1)),
                 LAMBDA f : IF f.z.err # NoErr THEN f
                            ELSE [f EXCEPT !.z.stateFlags = setActiveDeflateStream(@, FALSE)])
        ELSE m1,
    LAMBDA m2 :
        IF m2.z.err # NoErr THEN Return(m2, m1.n, m2.z.err)
        ELSE
    Let([m2 EXCEPT !.z.size = Add32(@, Uint32At(p, Len(p) - 3)),
                   !.z.digest = crc32Combine(@, Uint32At(p, Len(p) - 7),
                                             Uint32At(p, Len(p) - 3))],
    LAMBDA m3 : Latch(SinkWrite(m3, m3.z.w,
                                <<Chunk("payload", getDeflateSlice(p)[1])>>)))))

\* WriteCompressed (lines 759-797).
WriteCompressed(m, p) ==
    IF m.z.err # NoErr THEN Return(m, 0, m.z.err)
    ELSE
    Let(writeHeader(m),
    LAMBDA m1 :
        IF m1.z.err # NoErr THEN m1
        ELSE
    Let(IF checkActiveDeflateStream(m1.z.stateFlags)
        THEN Let(Latch(compressorFlush(m1)),
                 LAMBDA f : IF f.z.err # NoErr THEN f
                            ELSE [f EXCEPT !.z.stateFlags = setActiveDeflateStream(@, FALSE)])
        ELSE m1,
    LAMBDA m2 :
        IF m2.z.err # NoErr THEN Return(m2, m1.n, m2.z.err)
        ELSE IF Len(p) < 18 THEN Return(m2, m1.n, ErrBlob)
        ELSE
    Let([trailerChecksum |-> Uint32At(p, Len(p) - 7),
         trailerLength   |-> Uint32At(p, Len(p) - 3),
         slice           |-> getDeflateSlice(p)],
    LAMBDA t :
        IF ~t.slice[2] THEN Return(m2, m1.n, ErrBlob)
        ELSE
    Let([m2 EXCEPT !.z.size = Add32(@, t.trailerLength),
                   !.z.digest = crc32Combine(@, t.trailerChecksum, t.trailerLength)],
    LAMBDA m3 : Latch(SinkWrite(m3, m3.z.w, <<Chunk("payload", t.slice[1])>>))))))

\* Close without its early return on a closed writer.
CloseNoGuard(m) ==
    IF m.z.err # NoErr THEN Return(m, 0, m.z.err)
    ELSE
    Let([m EXCEPT !.z.stateFlags = setClosed(@, TRUE)],
    LAMBDA m0 :
    Let(IF ~checkWroteHeader(m0.z.stateFlags) THEN Write(m0, <<>>) ELSE m0,
    LAMBDA m1 :
        IF m1.z.err # NoErr THEN Return(m1, 0, m1.z.err)
        ELSE
    Let(Latch(compressorClose(m1)),
    LAMBDA m2 :
        IF m2.z.err # NoErr THEN Return(m2, 0, m2.z.err)
        ELSE
    Let(Latch(SinkWrite(m2, m2.z.w,
                        <<Chunk("trailer", PutUint32(m2.z.digest) \o PutUint32(m2.z.size))>>)),
    LAMBDA m3 : Return(m3, 0, m3.z.err)))))

\* Close that looks at the closed flag before it looks at the latched error.
CloseClosedFirst(m) ==
    IF checkClosed(m.z.stateFlags) THEN Return(m, 0, NoErr)
    ELSE CloseNoGuard(m)

\* Close (lines 894-920).
Close(m) ==
    IF m.z.err # NoErr THEN Return(m, 0, m.z.err)
    ELSE IF checkClosed(m.z.stateFlags) THEN Return(m, 0, NoErr)
    ELSE
    Let([m EXCEPT !.z.stateFlags = setClosed(@, TRUE)],
    LAMBDA m0 :
    Let(IF ~checkWroteHeader(m0.z.stateFlags) THEN Write(m0, <<>>) ELSE m0,
    LAMBDA m1 :
        IF m1.z.err # NoErr THEN Return(m1, 0, m1.z.err)
        ELSE
    Let(Latch(compressorClose(m1)),
    LAMBDA m2 :
        IF m2.z.err # NoErr THEN Return(m2, 0, m2.z.err)
        ELSE
    Let(Latch(SinkWrite(m2, m2.z.w,
                        <<Chunk("trailer", PutUint32(m2.z.digest) \o PutUint32(m2.z.size))>>)),
    LAMBDA m3 : Return(m3, 0, m3.z.err)))))

\* Flush without its early return on a closed writer.
FlushNoGuard(m) ==
    IF m.z.err # NoErr THEN Return(m, 0, m.z.err)
    ELSE
    Let(IF ~checkWroteHeader(m.z.stateFlags) THEN Write(m, <<>>) ELSE Return(m, 0, NoErr),
    LAMBDA m1 :
        IF m1.err # NoErr THEN Return(m1, 0, m1.z.err)
        ELSE
    Let(Latch(compressorFlush(m1)),
    LAMBDA m2 :
        Return([m2 EXCEPT !.z.stateFlags = setActiveDeflateStream(@, FALSE)], 0, m2.z.err)))

\* Flush that also ends the stream.
FlushAsClose(m) == Close(m)

\* Flush that flushes the compressor only while the deflate-active flag is
\* set.
FlushIfActive(m) ==
    IF m.z.err # NoErr THEN Return(m, 0, m.z.err)
    ELSE IF checkClosed(m.z.stateFlags) THEN Return(m, 0, NoErr)
    ELSE
    Let(IF ~checkWroteHeader(m.z.stateFlags) THEN Write(m, <<>>) ELSE Return(m, 0, NoErr),
    LAMBDA m1 :
        IF m1.err # NoErr THEN Return(m1, 0, m1.z.err)
        ELSE IF ~checkActiveDeflateStream(m1.z.stateFlags) THEN Return(m1, 0, NoErr)
        ELSE
    Let(Latch(compressorFlush(m1)),
    LAMBDA m2 :
        Return([m2 EXCEPT !.z.stateFlags = setActiveDeflateStream(@, FALSE)], 0, m2.z.err)))

\* Flush (lines 930-947).
Flush(m) ==
    IF m.z.err # NoErr THEN Return(m, 0, m.z.err)
    ELSE IF checkClosed(m.z.stateFlags) THEN Return(m, 0, NoErr)
    ELSE
    Let(IF ~checkWroteHeader(m.z.stateFlags) THEN Write(m, <<>>) ELSE Return(m, 0, NoErr),
    LAMBDA m1 :
        IF m1.err # NoErr THEN Return(m1, 0, m1.z.err)
        ELSE
    Let(Latch(compressorFlush(m1)),
    LAMBDA m2 :
        Return([m2 EXCEPT !.z.stateFlags = setActiveDeflateStream(@, FALSE)], 0, m2.z.err)))

\* Reset (lines 950-955).
Reset(m, w) ==
    Let(init(m.z, w, m.z.level),
    LAMBDA zi :
        [m EXCEPT !.z = [zi EXCEPT !.stateFlags =
             setActiveDeflateStream(setWroteHeader(setClosed(@, FALSE), FALSE), FALSE)],
                  !.n = 0, !.err = NoErr])

(***************************************************************************)
(* The reference: compress/gzip's Writer, which the tests run next to the  *)
(* writer on the same calls (TestClose, TestFlush, TestWrite).  Its struct *)
(* holds wroteHeader and closed as booleans; it writes through the same    *)
(* flate.Writer and io.Writer interfaces.                                  *)
(***************************************************************************)
\* gzip.NewWriterLevel(w, level), for a valid level.
StdNewWriter(w, level) ==
    [Extra |-> DefaultHeader.Extra, Name |-> DefaultHeader.Name,
     Comment |-> DefaultHeader.Comment, ModTime |-> DefaultHeader.ModTime,
     OS |-> DefaultHeader.OS,
     w |-> w, level |-> level, wroteHeader |-> FALSE, closed |-> FALSE,
     compressor |-> NilCompressor, digest |-> Zero32, size |-> Zero32, err |-> NoErr]

\* gzip.Writer.writeBytes: the length prefix and the bytes, errors as the
\* destination returns them.
StdWriteBytes(m, b) ==
    IF Len(b) > 65535 THEN Return(m, 0, ErrHdrExtaDataTooLarge)
    ELSE Let(SinkWrite(m, m.z.w, <<Chunk("extra", PutUint16(Len(b)))>>),
             LAMBDA m1 : IF m1.err # NoErr THEN m1
                         ELSE SinkWrite(m1, m1.z.w, <<Chunk("extra", b)>>))

\* gzip.Writer.writeString.
StdWriteString(m, s, kind) ==
    IF \E i \in 1..Len(s) : s[i] = 0 \/ s[i] > 255 THEN Return(m, 0, ErrHdrNonLatin1)
    ELSE Let(SinkWrite(m, m.z.w, <<Chunk(kind, s)>>),
             LAMBDA m1 : IF m1.err # NoErr THEN m1
                         ELSE SinkWrite(m1, m1.z.w, <<Chunk(kind, <<0>>)>>))

\* The header part of gzip.Writer.Write.
StdWriteHeader(m) ==
    Let(Latch(SinkWrite([m EXCEPT !.z.wroteHeader = TRUE], m.z.w,
                        <<Chunk("header", HeaderBytes(m.z))>>)),
    LAMBDA m1 :
        IF m1.z.err # NoErr THEN m1
        ELSE
    Let(IF ~m1.z.Extra.nil THEN Latch(StdWriteBytes(m1, m1.z.Extra.b)) ELSE m1,
    LAMBDA m2 :
        IF m2.z.err # NoErr THEN m2
        ELSE
    Let(IF m2.z.Name # <<>> THEN Latch(StdWriteString(m2, m2.z.Name, "name")) ELSE m2,
    LAMBDA m3 :
        IF m3.z.err # NoErr THEN m3
        ELSE
    Let(IF m3.z.Comment # <<>>
        THEN Latch(StdWriteString(m3, m3.z.Comment, "comment")) ELSE m3,
    LAMBDA m4 :
        IF m4.z.err # NoErr THEN m4
        ELSE IF ~m4.z.compressor.alloc
        THEN [m4 EXCEPT !.z.compressor = NewCompressor(m4.z.w)]
        ELSE m4))))

\* gzip.Writer.Write.
StdWrite(m, p) ==
    IF m.z.err # NoErr THEN Return(m, 0, m.z.err)
    ELSE
    Let(IF ~m.z.wroteHeader THEN StdWriteHeader(m) ELSE m,
    LAMBDA m1 :
        IF m1.z.err # NoErr THEN Return(m1, 0, m1.z.err)
        ELSE
    Let([m1 EXCEPT !.z.size = Add32(@, ToU32(Len(p))),
                   !.z.digest = crc32Update(@, p)],
    LAMBDA m2 : Latch(compressorWrite(m2, p))))

\* gzip.Writer.Flush.
StdFlush(m) ==
    IF m.z.err # NoErr THEN Return(m, 0, m.z.err)
    ELSE IF m.z.closed THEN Return(m, 0, NoErr)
    ELSE
    Let(IF ~m.z.wroteHeader THEN StdWrite(m, <<>>) ELSE m,
    LAMBDA m1 :
        IF m1.z.err # NoErr THEN Return(m1, 0, m1.z.err)
        ELSE Let(Latch(compressorFlush(m1)), LAMBDA m2 : Return(m2, 0, m2.z.err)))

\* gzip.Writer.Close.
StdClose(m) ==
    IF m.z.err # NoErr THEN Return(m, 0, m.z.err)
    ELSE IF m.z.closed THEN Return(m, 0, NoErr)
    ELSE
    Let([m EXCEPT !.z.closed = TRUE],
    LAMBDA m0 :
    Let(IF ~m0.z.wroteHeader THEN StdWrite(m0, <<>>) ELSE m0,
    LAMBDA m1 :
        IF m1.z.err # NoErr THEN Return(m1, 0, m1.z.err)
        ELSE
    Let(Latch(compressorClose(m1)),
    LAMBDA m2 :
        IF m2.z.err # NoErr THEN Return(m2, 0, m2.z.err)
        ELSE
    Let(Latch(SinkWrite(m2, m2.z.w,
                        <<Chunk("trailer", PutUint32(m2.z.digest) \o PutUint32(m2.z.size))>>)),
    LAMBDA m3 : Return(m3, 0, m3.z.err)))))

(***************************************************************************)
(* Inputs.                                                                 *)
(***************************************************************************)
\* The byte slices passed to Write: nil, "A", "fo".
RawInputs == {<<>>, <<65>>, <<102, 111>>}

\* The blobs passed to WriteCompressed, each with the content it holds and
\* whether its trailer is the CRC32 and length of that content:
\*   gzip("x"); three bytes of a header; a member whose trailer claims
\*   0x60000000 bytes.
BlobX == [bytes |-> GzipOf(<<120>>), plain |-> <<120>>, honest |-> TRUE]

BlobShort == [bytes |-> <<gzipID1, gzipID2, gzipDeflate>>, plain |-> <<>>, honest |-> TRUE]

BlobHuge ==
    [bytes |-> <<gzipID1, gzipID2, gzipDeflate, 0, 0, 0, 0, 0, 0, 255>> \o FinalBlock
               \o PutUint32(U32(4660, 22136)) \o PutUint32(U32(24576, 0)),
     plain |-> <<>>, honest |-> FALSE]

BlobInputs == {BlobX, BlobShort, BlobHuge}

\* Where a sink failure is injected: after f successful writes, or never.
FailChoices == (0..MaxFail) \cup {-1}

\* The compression levels writers are constructed with.
Levels == {DefaultCompression, BestCompression}

\* Values assigned to the exported gzip.Header fields of the writer.
HeaderChoices ==
    { [Extra |-> [nil |-> FALSE, b |-> <<7>>], Name |-> <<110>>, Comment |-> <<99>>,
       ModTime |-> 1, OS |-> 3] }

(***************************************************************************)
(* The state machine.                                                      *)
(***************************************************************************)
\* t + v for the unbounded total t and a uint32 v.
BigAdd(t, v) ==
    LET lo == t[2] + v[2]
    IN  <<t[1] + v[1] + (lo \div H16), lo % H16>>

NoProbe == [X |-> <<>>, Y |-> <<>>, done |-> FALSE, crc |-> Zero32]

\* The reference writer on construction, and once it is no longer run.
StdStart(level) ==
    [z |-> StdNewWriter(1, level), dest |-> [d \in Dests |-> <<>>],
     ret |-> [n |-> 0, err |-> NoErr], tracked |-> TRUE]

StdOff == [StdStart(DefaultCompression) EXCEPT !.tracked = FALSE]

\* The reference writer's side of a call, f being the sink failure injected.
StdMachine(f) == [z |-> std.z, dest |-> std.dest, fuel |-> f, n |-> 0, err |-> NoErr]

StdCommit(sm) ==
    Let(sm, LAMBDA v : [z |-> v.z, dest |-> v.dest,
                        ret |-> [n |-> v.n, err |-> v.err], tracked |-> TRUE])

Init ==
    /\ z \in {NewGzipStreamWriterLevel(1, level).z : level \in Levels}
    /\ dest = [d \in Dests |-> <<>>]
    /\ ret = [n |-> 0, err |-> NoErr]
    /\ last = [op |-> "New", blob |-> <<>>, closed |-> FALSE, err |-> NoErr]
    /\ ops = 0
    /\ start = 0
    /\ content = <<>>
    /\ total = <<0, 0>>
    /\ honest = TRUE
    /\ clean = TRUE
    /\ probe = NoProbe
    /\ std = StdStart(z.level)

\* The effect of a call that ran to machine m.
Commit(m, op, blob, plain, isize, hon) ==
    /\ z' = m.z
    /\ dest' = m.dest
    /\ ret' = [n |-> m.n, err |-> m.err]
    /\ last' = [op |-> op, blob |-> blob, closed |-> checkClosed(z.stateFlags), err |-> z.err]
    /\ ops' = ops + 1
    /\ start' = start
    /\ content' = IF m.err = NoErr THEN content \o plain ELSE content
    /\ total' = IF m.err = NoErr THEN BigAdd(total, isize) ELSE total
    /\ honest' = IF m.err = NoErr THEN honest /\ hon ELSE honest
    /\ clean' = (clean /\ m.err = NoErr /\ op \in {"Write", "WriteCompressed", "Close"})
    /\ UNCHANGED probe

DoWrite ==
    /\ ops < MaxOps
    /\ \E p \in RawInputs, f \in FailChoices :
       \E m \in {Write(Machine(f), p)} :
           /\ Commit(m, "Write", <<>>, p, ToU32(Len(p)), TRUE)
           /\ std' = IF std.tracked THEN StdCommit(StdWrite(StdMachine(f), p)) ELSE std

DoWriteCompressed ==
    /\ ops < MaxOps
    /\ \E b \in BlobInputs, f \in FailChoices :
       \E m \in {WriteCompressed(Machine(f), b.bytes)} :
           /\ Commit(m, "WriteCompressed", b.bytes, b.plain,
                     Uint32At(b.bytes, Len(b.bytes) - 3), b.honest)
           /\ std' = StdOff

DoFlush ==
    /\ ops < MaxOps
    /\ \E f \in FailChoices :
       \E m \in {Flush(Machine(f))} :
           /\ Commit(m, "Flush", <<>>, <<>>, Zero32, TRUE)
           /\ std' = IF std.tracked THEN StdCommit(StdFlush(StdMachine(f))) ELSE std

DoClose ==
    /\ ops < MaxOps
    /\ \E f \in FailChoices :
       \E m \in {Close(Machine(f))} :
           /\ Commit(m, "Close", <<>>, <<>>, Zero32, TRUE)
           /\ std' = IF std.tracked THEN StdCommit(StdClose(StdMachine(f))) ELSE std

DoReset ==
    /\ ops < MaxOps
    /\ \E w \in Dests :
       \E m \in {Reset(Machine(-1), w)} :
               /\ z' = m.z
               /\ dest' = m.dest
               /\ ret' = [n |-> 0, err |-> NoErr]
               /\ last' = [op |-> "Reset", blob |-> <<>>, closed |-> checkClosed(z.stateFlags), err |-> z.err]
               /\ ops' = ops + 1
               /\ start' = Len(dest[w])
               /\ content' = <<>>
               /\ total' = <<0, 0>>
               /\ honest' = TRUE
               /\ clean' = TRUE
               /\ std' = StdOff
               /\ UNCHANGED probe

\* An assignment to the exported Header fields (line 531).
SetHeader ==
    /\ ops < MaxOps
    /\ \E h \in HeaderChoices :
           /\ z' = [z EXCEPT !.Extra = h.Extra, !.Name = h.Name, !.Comment = h.Comment,
                             !.ModTime = h.ModTime, !.OS = h.OS]
           /\ last' = [op |-> "SetHeader", blob |-> <<>>,
                        closed |-> checkClosed(z.stateFlags), err |-> z.err]
           /\ ops' = ops + 1
           /\ std' = StdOff
           /\ UNCHANGED <<dest, ret, start, content, total, honest, clean, probe>>

Next ==
    \/ DoWrite
    \/ DoWriteCompressed
    \/ DoFlush
    \/ DoClose
    \/ DoReset
    \/ SetHeader

Spec == Init /\ [][Next]_vars

(***************************************************************************)
(* crc32Combine called on its own, with the checksums and the length of    *)
(* two byte strings.                                                       *)
(***************************************************************************)
\* The longest byte string given to crc32Combine.
MaxLen == 2

ProbeBytes == {0, 65, 255}

ProbeStrings == UNION {[1..n -> ProbeBytes] : n \in 0..MaxLen}

CombineInit ==
    /\ z = NewGzipStreamWriter(1)
    /\ dest = [d \in Dests |-> <<>>]
    /\ ret = [n |-> 0, err |-> NoErr]
    /\ last = [op |-> "New", blob |-> <<>>, closed |-> FALSE, err |-> NoErr]
    /\ ops = 0
    /\ start = 0
    /\ content = <<>>
    /\ total = <<0, 0>>
    /\ honest = TRUE
    /\ clean = TRUE
    /\ std = StdStart(DefaultCompression)
    /\ probe \in {[X |-> x, Y |-> y, done |-> FALSE, crc |-> Zero32] :
                    x \in ProbeStrings, y \in ProbeStrings}

Combine ==
    /\ ~probe.done
    /\ probe' = [probe EXCEPT !.done = TRUE,
                              !.crc = crc32Combine(CRC32(probe.X), CRC32(probe.Y),
                                                   ToU32(Len(probe.Y)))]
    /\ UNCHANGED <<z, dest, ret, last, ops, start, content, total, honest, clean, std>>

CombineNext == Combine

CombineSpec == CombineInit /\ [][CombineNext]_vars

(***************************************************************************)
(* What has been written in the current lifetime of the writer.            *)
(***************************************************************************)
\* The chunks written to the writer's destination since it was constructed
\* or last Reset.
Lifetime == SubSeq(dest[z.w], start + 1, Len(dest[z.w]))

CountKind(chunks, kind) == Cardinality({i \in 1..Len(chunks) : chunks[i].kind = kind})

HeaderCount == CountKind(Lifetime, "header")

TrailerCount == CountKind(Lifetime, "trailer")

\* The trailers written to any destination, in any lifetime.
AllTrailers == CountKind(dest[1], "trailer") + CountKind(dest[2], "trailer")

RECURSIVE Bytes(_)
Bytes(chunks) == IF chunks = <<>> THEN <<>> ELSE chunks[1].bytes \o Bytes(Tail(chunks))

\* The calls that write: everything but Reset and the header assignments.
CallOps == {"Write", "WriteCompressed", "Flush", "Close"}

\* The state right after a Close that was made on an open writer and
\* returned nil.
FirstCloseDone == last.op = "Close" /\ ~last.closed /\ ret.err = NoErr

\* The 8 bytes that Close wrote last.
Trailer == Lifetime[Len(Lifetime)].bytes

(***************************************************************************)
(* The reference decoder: gzip.NewReader and io.ReadAll, as the tests'     *)
(* decompressGzipBuffer uses them.  A member is its header (RFC 1952), a   *)
(* DEFLATE stream that ends with the first block whose BFINAL is set, and  *)
(* the CRC32 and ISIZE of the decompressed data; the reader accepts a      *)
(* sequence of members and nothing else.                                   *)
(***************************************************************************)
HasFlag(b, f) == (b[4] \div f) % 2 = 1

\* The offset after the string field at offset h (its NUL included), or -1.
SkipString(b, h, f) ==
    IF h < 0 \/ ~HasFlag(b, f) THEN h
    ELSE Let(IndexByte(Slice(b, h, Len(b)), 0),
             LAMBDA i : IF i < 0 THEN -1 ELSE h + i + 1)

\* The offset after the extra field, or -1.
SkipExtra(b, h) ==
    IF ~HasFlag(b, flagExtra) THEN h
    ELSE IF Len(b) < h + 2 THEN -1
    ELSE Let(h + 2 + Uint16At(b, h + 1),
             LAMBDA e : IF Len(b) < e THEN -1 ELSE e)

\* The offset after the header CRC, which is the low half of the CRC32 of
\* the header bytes before it, or -1.
SkipHdrCrc(b, h) ==
    IF h < 0 \/ ~HasFlag(b, flagHdrCrc) THEN h
    ELSE IF Len(b) < h + 2 THEN -1
    ELSE IF Uint16At(b, h + 1) # CRC32(Slice(b, 0, h))[2] THEN -1
    ELSE h + 2

\* The length of the member header at the start of b, or -1.
ReadHeader(b) ==
    IF Len(b) < 10 THEN -1
    ELSE IF b[1] # gzipID1 \/ b[2] # gzipID2 \/ b[3] # gzipDeflate THEN -1
    ELSE Let(SkipExtra(b, 10), LAMBDA h1 :
         Let(SkipString(b, h1, flagName), LAMBDA h2 :
         Let(SkipString(b, h2, flagComment), LAMBDA h3 : SkipHdrCrc(b, h3))))

\* The stored blocks of b from offset st.pos on, up to the final one.
RECURSIVE Inflate(_, _)
Inflate(b, st) ==
    IF Len(b) < st.pos + 5 THEN [st EXCEPT !.ok = FALSE]
    ELSE IF b[st.pos + 1] \notin {0, 1} THEN [st EXCEPT !.ok = FALSE]
    ELSE Let(Uint16At(b, st.pos + 2), LAMBDA len :
         IF len + Uint16At(b, st.pos + 4) # 65535 \/ Len(b) < st.pos + 5 + len
         THEN [st EXCEPT !.ok = FALSE]
         ELSE Let([ok |-> TRUE, pos |-> st.pos + 5 + len,
                   out |-> st.out \o Slice(b, st.pos + 5, st.pos + 5 + len)],
                  LAMBDA nx : IF b[st.pos + 1] = 1 THEN nx ELSE Inflate(b, nx)))

GunzipFail == [ok |-> FALSE, out |-> <<>>]

RECURSIVE Gunzip(_)
Gunzip(b) ==
    Let(ReadHeader(b), LAMBDA h :
        IF h < 0 THEN GunzipFail
        ELSE Let(Inflate(b, [ok |-> TRUE, pos |-> h, out |-> <<>>]), LAMBDA r :
            IF ~r.ok \/ Len(b) < r.pos + 8 THEN GunzipFail
            ELSE IF Uint32At(b, r.pos + 1) # CRC32(r.out) THEN GunzipFail
            ELSE IF Uint32At(b, r.pos + 5) # ToU32(Len(r.out)) THEN GunzipFail
            ELSE IF Len(b) = r.pos + 8 THEN [ok |-> TRUE, out |-> r.out]
            ELSE Let(Gunzip(Slice(b, r.pos + 8, Len(b))), LAMBDA rest :
                IF rest.ok THEN [ok |-> TRUE, out |-> r.out \o rest.out]
                ELSE GunzipFail)))

\* The offset after the first member of b (its header, its DEFLATE stream up
\* to the final block, and the CRC32 and ISIZE of the decompressed data), or
\* -1 when b does not start with a member.
MemberEnd(b) ==
    Let(ReadHeader(b), LAMBDA h :
        IF h < 0 THEN -1
        ELSE Let(Inflate(b, [ok |-> TRUE, pos |-> h, out |-> <<>>]), LAMBDA r :
            IF ~r.ok \/ Len(b) < r.pos + 8 THEN -1
            ELSE IF Uint32At(b, r.pos + 1) # CRC32(r.out) THEN -1
            ELSE IF Uint32At(b, r.pos + 5) # ToU32(Len(r.out)) THEN -1
            ELSE r.pos + 8))

(***************************************************************************)
(* WriteCompressed on blobs of every header shape: writers on a            *)
(* destination that never fails, given Write, WriteCompressed and Close.   *)
(***************************************************************************)
\* The number of calls made on a writer.
MaxSpliceOps == 2

\* The header flags a blob may set.
FieldFlags == {flagExtra, flagName, flagComment, flagHdrCrc}

RECURSIVE SumOf(_)
SumOf(S) == IF S = {} THEN 0 ELSE LET x == CHOOSE x \in S : TRUE IN x + SumOf(S \ {x})

\* A member header with the fields of fl set: the extra field 07 (XLEN 1),
\* the name "n", the comment "c", each with its NUL, and the header CRC.
MemberHeader(fl) ==
    Let(<<gzipID1, gzipID2, gzipDeflate, SumOf(fl), 0, 0, 0, 0, 0, 255>>
        \o (IF flagExtra \in fl THEN <<1, 0, 7>> ELSE <<>>)
        \o (IF flagName \in fl THEN <<110, 0>> ELSE <<>>)
        \o (IF flagComment \in fl THEN <<99, 0>> ELSE <<>>),
        LAMBDA h : IF flagHdrCrc \in fl THEN h \o PutUint16(CRC32(h)[2]) ELSE h)

\* The well-formed member holding data behind such a header.
MemberOf(fl, data) ==
    MemberHeader(fl)
    \o (IF data = <<>> THEN <<>> ELSE Stored(data, 0)) \o FinalBlock
    \o PutUint32(CRC32(data)) \o PutUint32(ToU32(Len(data)))

\* Well-formed blobs: every combination of fields around an empty payload,
\* and no field and all four fields around "x".
WellFormedBlobs ==
    {MemberOf(fl, <<>>) : fl \in SUBSET FieldFlags}
    \cup {MemberOf({}, <<120>>), MemberOf(FieldFlags, <<120>>)}

\* Blobs shorter than 18 bytes: none, 3, 10 and 17 bytes of gzip("").
ShortBlobs == {Slice(GzipOf(<<>>), 0, k) : k \in {0, 3, 10, 17}}

\* gzip("x") with one of its first three bytes changed.
BadMagicBlobs == {[GzipOf(<<120>>) EXCEPT ![k] = 0] : k \in 1..3}

\* Blobs whose name or comment has no NUL before the trailer: a fixed header
\* with FNAME or FCOMMENT set, the byte "n", and eight trailer bytes with
\* their first zero byte at index len-8, at index len-7, or nowhere.
UnterminatedBlobs ==
    {<<gzipID1, gzipID2, gzipDeflate, f, 1, 1, 1, 1, 1, 255, 110>> \o t :
        f \in {flagName, flagComment},
        t \in {<<0, 1, 2, 3, 0, 0, 0, 0>>, <<1, 0, 2, 3, 0, 0, 0, 0>>,
               <<1, 2, 3, 4, 1, 1, 1, 1>>}}

\* A member followed by more bytes: gzip("x") gzip("x"), and gzip("") and
\* one more byte.
TrailingBlobs == {GzipOf(<<120>>) \o GzipOf(<<120>>), GzipOf(<<>>) \o <<0>>}

SpliceBlobs ==
    WellFormedBlobs \cup ShortBlobs \cup BadMagicBlobs \cup UnterminatedBlobs
    \cup TrailingBlobs

\* The content a blob decompresses to (nothing when it does not).
PlainOf(b) == Let(Gunzip(b), LAMBDA g : IF g.ok THEN g.out ELSE <<>>)

SpliceInit ==
    /\ z = NewGzipStreamWriter(1)
    /\ dest = [d \in Dests |-> <<>>]
    /\ ret = [n |-> 0, err |-> NoErr]
    /\ last = [op |-> "New", blob |-> <<>>, closed |-> FALSE, err |-> NoErr]
    /\ ops = 0
    /\ start = 0
    /\ content = <<>>
    /\ total = <<0, 0>>
    /\ honest = TRUE
    /\ clean = TRUE
    /\ probe = NoProbe
    /\ std = StdOff

SpliceWrite ==
    /\ ops < MaxSpliceOps
    /\ \E p \in RawInputs :
       \E m \in {Write(Machine(-1), p)} :
           /\ Commit(m, "Write", <<>>, p, ToU32(Len(p)), TRUE)
           /\ UNCHANGED std

Splice ==
    /\ ops < MaxSpliceOps
    /\ \E b \in SpliceBlobs :
       \E m \in {WriteCompressed(Machine(-1), b)} :
           /\ Commit(m, "WriteCompressed", b, PlainOf(b),
                     Uint32At(b, Len(b) - 3), Gunzip(b).ok)
           /\ UNCHANGED std

SpliceClose ==
    /\ ops < MaxSpliceOps
    /\ \E m \in {Close(Machine(-1))} :
           /\ Commit(m, "Close", <<>>, <<>>, Zero32, TRUE)
           /\ UNCHANGED std

SpliceNext ==
    \/ SpliceWrite
    \/ Splice
    \/ SpliceClose

SpliceSpec == SpliceInit /\ [][SpliceNext]_vars

(***************************************************************************)
(* The flag setters alone, called in any order with either value on the    *)
(* stateFlags of a fresh writer.                                           *)
(***************************************************************************)
\* The number of setter calls.
MaxFlagOps == 5

FlagInit == SpliceInit

\* One setter call; last.blob holds the setter's local flag, 0 or 1.
FlagSet ==
    /\ ops < MaxFlagOps
    /\ \E value \in BOOLEAN, s \in {"setWroteHeader", "setClosed", "setActiveDeflateStream"} :
           /\ z' = [z EXCEPT !.stateFlags =
                        CASE s = "setWroteHeader" -> setWroteHeader(@, value)
                          [] s = "setClosed" -> setClosed(@, value)
                          [] OTHER -> setActiveDeflateStream(@, value)]
           /\ last' = [op |-> s, blob |-> <<IF value THEN 1 ELSE 0>>,
                        closed |-> checkClosed(z.stateFlags), err |-> z.err]
           /\ ops' = ops + 1
           /\ UNCHANGED <<dest, ret, start, content, total, honest, clean, probe, std>>

FlagNext == FlagSet

FlagSpec == FlagInit /\ [][FlagNext]_vars

(***************************************************************************)
(* The blob parser on byte sequences of every shape: one WriteCompressed   *)
(* call on a fresh writer.                                                 *)
(***************************************************************************)
\* The longest blob given to the parser.
MaxParseLen == 23

\* The indices of gzBlob (0-based) that getHeaderLength reads, and the
\* bounds of the slices it takes, step by step as in getHeaderLength above;
\* h is headerLen, or -1 once the function has returned -1.
getHeaderLengthReads(gzBlob) ==
    LET n    == Len(gzBlob)
        has(f) == (gzBlob[4] \div f) % 2 = 1
        s0 == IF n < 10 THEN [h |-> -1, reads |-> {}, cuts |-> {}]
              ELSE IF gzBlob[1] # gzipID1 THEN [h |-> -1, reads |-> {0}, cuts |-> {}]
              ELSE IF gzBlob[2] # gzipID2 THEN [h |-> -1, reads |-> {0, 1}, cuts |-> {}]
              ELSE IF gzBlob[3] # gzipDeflate
                   THEN [h |-> -1, reads |-> {0, 1, 2}, cuts |-> {}]
              ELSE [h |-> 10, reads |-> {0, 1, 2, 3}, cuts |-> {}]
        \* gzBlob[10:12], then headerLen += extraFieldLength.
        s1 == IF s0.h < 0 \/ ~has(flagExtra) THEN s0
              ELSE IF n < 12 THEN [s0 EXCEPT !.h = -1]
              ELSE Let([s0 EXCEPT !.reads = @ \cup {10, 11}, !.cuts = @ \cup {10, 12}],
                       LAMBDA t : IF n < 12 + Uint16At(gzBlob, 11) THEN [t EXCEPT !.h = -1]
                                  ELSE [t EXCEPT !.h = 12 + Uint16At(gzBlob, 11)])
        \* bytes.IndexByte(gzBlob[headerLen:], 0) reads up to the zero it
        \* finds, or to the end.
        str(s, f) ==
            IF s.h < 0 \/ ~has(f) THEN s
            ELSE Let(IndexByte(Slice(gzBlob, s.h, n), 0), LAMBDA e :
                     IF e < 0
                     THEN [h |-> -1, reads |-> s.reads \cup (s.h..(n - 1)),
                           cuts |-> s.cuts \cup {s.h}]
                     ELSE [h |-> IF n < s.h + e THEN -1 ELSE s.h + e,
                           reads |-> s.reads \cup (s.h..(s.h + e)),
                           cuts |-> s.cuts \cup {s.h}])
        s2 == str(s1, flagName)
        s3 == str(s2, flagComment)
        s4 == IF s3.h < 0 \/ ~has(flagHdrCrc) THEN s3
              ELSE IF n < s3.h + 2 THEN [s3 EXCEPT !.h = -1]
              ELSE [s3 EXCEPT !.h = @ + 2]
    IN  s4

\* The same for the whole of WriteCompressed's parsing (lines 779-787 and
\* 811-823): the trailer, the header, and the payload slice.
WriteCompressedReads(p) ==
    IF Len(p) < 18 THEN [h |-> -1, reads |-> {}, cuts |-> {}]
    ELSE Let(getHeaderLengthReads(p), LAMBDA s :
             [h |-> s.h,
              reads |-> s.reads \cup ((Len(p) - 8)..(Len(p) - 1)),
              cuts |-> s.cuts \cup {Len(p) - 8, Len(p) - 4}
                       \cup (IF s.h >= 0 /\ Len(p) >= s.h + 8 THEN {s.h} ELSE {})])

\* Every flag byte as far as the parser tells them apart: each combination
\* of FHCRC, FEXTRA, FNAME and FCOMMENT, and FTEXT and the reserved bits.
ParseFlags == {SumOf(fl) : fl \in SUBSET FieldFlags} \cup {1, 224, 255}

\* Eight trailer bytes: ones up to the first zero, which is at each place or
\* nowhere, and zeros after it.
ParseTrailers == {[i \in 1..8 |-> IF i < j THEN 1 ELSE 0] : j \in 1..9}

\* The blobs: ten header bytes with each flag byte, every sequence of zeros
\* and ones (the extra length among them) and each trailer; blobs with an
\* extra length that fits exactly, exceeds the blob by one or is 65535;
\* every prefix of a blob of 17 bytes; a wrong magic byte.
ParseBlobs ==
    {<<gzipID1, gzipID2, gzipDeflate, f, 0, 0, 0, 0, 0, 255>> \o b \o t :
        f \in ParseFlags,
        b \in UNION {[1..k -> {0, 1}] : k \in 0..(MaxParseLen - 18)},
        t \in ParseTrailers}
    \cup {<<gzipID1, gzipID2, gzipDeflate, f, 0, 0, 0, 0, 0, 255>> \o x
              \o <<7, 7, 7, 7, 7, 7, 7, 7, 7, 7>> :
              f \in {flagExtra, 255}, x \in {<<2, 0>>, <<3, 0>>, <<255, 255>>}}
    \cup {Slice(<<gzipID1, gzipID2, gzipDeflate, 255, 0, 0, 0, 0, 0, 255,
                  255, 255, 1, 1, 1, 1, 1>>, 0, k) : k \in 0..17}
    \cup {[GzipOf(<<>>) EXCEPT ![k] = 0] : k \in 1..3}

ParseInit == SpliceInit

ParseSplice ==
    /\ ops = 0
    /\ \E b \in ParseBlobs :
       \E m \in {WriteCompressed(Machine(-1), b)} :
           /\ Commit(m, "WriteCompressed", b, PlainOf(b),
                     Uint32At(b, Len(b) - 3), Gunzip(b).ok)
           /\ UNCHANGED std

ParseNext == ParseSplice

ParseSpec == ParseInit /\ [][ParseNext]_vars

(***************************************************************************)
(* Construction at every level and the header of every shape: a writer is  *)
(* constructed, its exported Header fields are assigned, and it is used,   *)
(* on a destination that never fails.                                      *)
(***************************************************************************)
\* The number of steps made on a writer, the assignment of the header fields
\* being one.
MaxHeaderOps == 3

\* The levels given to NewGzipStreamWriterLevel: the valid ones and two on
\* either side.
LevelInputs == (HuffmanOnly - 2)..(BestCompression + 2)

\* A byte slice of n bytes.
BytesOfLen(n) == [i \in 1..n |-> 7]

\* Header fields writeHeader accepts: Extra nil, empty or two bytes; Name and
\* Comment (as runes) empty, ASCII or Latin-1; ModTime unset, the epoch,
\* one second and 0x010203 seconds after it; OS unknown or Unix.
ValidHeaders ==
    {[Extra |-> e, Name |-> n, Comment |-> c, ModTime |-> t[1], OS |-> t[2]] :
        e \in {[nil |-> TRUE, b |-> <<>>], [nil |-> FALSE, b |-> <<>>],
               [nil |-> FALSE, b |-> <<7, 0>>]},
        n \in {<<>>, <<110>>, <<255, 110>>},
        c \in {<<>>, <<99>>},
        t \in {<<-1, 255>>, <<0, 3>>, <<1, 255>>, <<66051, 3>>}}

\* The longest Extra writeHeaderBytes accepts.
LongestHeader ==
    [Extra |-> [nil |-> FALSE, b |-> BytesOfLen(65535)], Name |-> <<110>>,
     Comment |-> <<>>, ModTime |-> -1, OS |-> 255]

\* Header fields writeHeader rejects: Extra of 65536 bytes; a NUL or a rune
\* above 0xff in Name; the same in Comment.
InvalidHeaders ==
    {[Extra |-> [nil |-> FALSE, b |-> BytesOfLen(65536)], Name |-> <<110>>,
      Comment |-> <<99>>, ModTime |-> -1, OS |-> 255],
     [Extra |-> [nil |-> FALSE, b |-> <<7, 0>>], Name |-> <<110, 0>>,
      Comment |-> <<99>>, ModTime |-> -1, OS |-> 255],
     [Extra |-> [nil |-> TRUE, b |-> <<>>], Name |-> <<256>>,
      Comment |-> <<>>, ModTime |-> -1, OS |-> 255],
     [Extra |-> [nil |-> TRUE, b |-> <<>>], Name |-> <<110>>,
      Comment |-> <<0, 99>>, ModTime |-> 1, OS |-> 255],
     [Extra |-> [nil |-> TRUE, b |-> <<>>], Name |-> <<>>,
      Comment |-> <<99, 8364>>, ModTime |-> -1, OS |-> 255]}

HeaderInputs == ValidHeaders \cup {LongestHeader} \cup InvalidHeaders

HeaderInit ==
    /\ \E level \in LevelInputs :
       \E r \in {NewGzipStreamWriterLevel(1, level)} :
           /\ z = r.z
           /\ ret = [n |-> 0, err |-> r.err]
    /\ dest = [d \in Dests |-> <<>>]
    /\ last = [op |-> "New", blob |-> <<>>, closed |-> FALSE, err |-> NoErr]
    /\ ops = 0
    /\ start = 0
    /\ content = <<>>
    /\ total = <<0, 0>>
    /\ honest = TRUE
    /\ clean = TRUE
    /\ probe = NoProbe
    /\ std = StdOff

\* The assignment of the exported Header fields, before the first use.
HeaderSet ==
    /\ "nil" \notin DOMAIN z
    /\ last.op = "New"
    /\ ops < MaxHeaderOps
    /\ \E h \in HeaderInputs :
           /\ z' = [z EXCEPT !.Extra = h.Extra, !.Name = h.Name, !.Comment = h.Comment,
                             !.ModTime = h.ModTime, !.OS = h.OS]
           /\ last' = [op |-> "SetHeader", blob |-> <<>>, closed |-> FALSE, err |-> NoErr]
           /\ ops' = ops + 1
           /\ UNCHANGED <<dest, ret, start, content, total, honest, clean, probe, std>>

HeaderWrite ==
    /\ "nil" \notin DOMAIN z
    /\ ops < MaxHeaderOps
    /\ \E p \in {<<>>, <<65>>} :
       \E m \in {Write(Machine(-1), p)} :
           /\ Commit(m, "Write", <<>>, p, ToU32(Len(p)), TRUE)
           /\ UNCHANGED std

HeaderSplice ==
    /\ "nil" \notin DOMAIN z
    /\ ops < MaxHeaderOps
    /\ \E m \in {WriteCompressed(Machine(-1), BlobX.bytes)} :
           /\ Commit(m, "WriteCompressed", BlobX.bytes, BlobX.plain,
                     Uint32At(BlobX.bytes, Len(BlobX.bytes) - 3), BlobX.honest)
           /\ UNCHANGED std

HeaderFlush ==
    /\ "nil" \notin DOMAIN z
    /\ ops < MaxHeaderOps
    /\ \E m \in {Flush(Machine(-1))} :
           /\ Commit(m, "Flush", <<>>, <<>>, Zero32, TRUE)
           /\ UNCHANGED std

HeaderClose ==
    /\ "nil" \notin DOMAIN z
    /\ ops < MaxHeaderOps
    /\ \E m \in {Close(Machine(-1))} :
           /\ Commit(m, "Close", <<>>, <<>>, Zero32, TRUE)
           /\ UNCHANGED std

HeaderNext ==
    \/ HeaderSet
    \/ HeaderWrite
    \/ HeaderSplice
    \/ HeaderFlush
    \/ HeaderClose

HeaderSpec == HeaderInit /\ [][HeaderNext]_vars

(***************************************************************************)
(* The claims.                                                             *)
(***************************************************************************)
\* C1: in one lifetime of the writer (no Reset in between) the gzip header
\* is written to the destination at most once, and exactly once as soon as
\* a call has succeeded; a WriteCompressed made after the header was written
\* writes no further header.
C1_HeaderOnce ==
    /\ HeaderCount <= 1
    /\ (last.op \in CallOps /\ ret.err = NoErr) => HeaderCount = 1

\* C2: after Write and WriteCompressed calls with well-formed blobs and the
\* Close that follows them, all on a sink that never fails, the destination
\* holds a stream that decompresses to the calls' content concatenated in
\* call order.
C2_RoundTrip ==
    (FirstCloseDone /\ clean /\ honest)
        => Gunzip(Bytes(Lifetime)) = [ok |-> TRUE, out |-> content]

\* C3: when the Write and WriteCompressed calls succeeded, every blob
\* carrying the CRC and ISIZE of its content, the CRC field of the trailer
\* that Close writes is the CRC32 of the calls' content concatenated in
\* call order.
C3_TrailerCRC ==
    (FirstCloseDone /\ honest)
        => SubSeq(Trailer, 1, 4) = PutUint32(CRC32(content))

C3_Witness ==
    /\ FirstCloseDone
    /\ honest
    /\ content = <<65, 120>>
    /\ TrailerCount = 1

\* C4: the ISIZE field of the trailer that Close writes is the sum, modulo
\* 2^32, of len(p) over the successful Writes and of the trailer ISIZE over
\* the accepted blobs, also when that sum has passed 2^32.
C4_TrailerISize ==
    FirstCloseDone
        => SubSeq(Trailer, 5, 8) = PutUint32(U32(total[1] % H16, total[2]))

C4_Witness ==
    /\ FirstCloseDone
    /\ total[1] >= H16
    /\ TrailerCount = 1

\* C5: crc32Combine(CRC32(X), CRC32(Y), len(Y)) = CRC32(X ++ Y) for all
\* byte strings X and Y, X empty and Y empty included.
C5_Combine ==
    probe.done => probe.crc = CRC32(probe.X \o probe.Y)

C5_Witness ==
    /\ probe.done
    /\ probe.X # <<>>
    /\ probe.Y # <<>>
    /\ probe.crc = CRC32(probe.X \o probe.Y)

\* C6: in one lifetime of the writer at most one trailer is written, only a
\* Close call writes a trailer, and after the first Close of a writer without
\* error exactly one trailer has been written.
C6_OneTrailer ==
    /\ [](TrailerCount <= 1)
    /\ [][AllTrailers' > AllTrailers => last'.op = "Close"]_vars
    /\ []((FirstCloseDone /\ last.err = NoErr) => TrailerCount = 1)

C6_Witness ==
    /\ FirstCloseDone
    /\ start > 0
    /\ start < Len(dest[z.w])
    /\ TrailerCount = 1
    /\ CountKind(dest[z.w], "trailer") = 2

\* C7: nothing is written to the destination after the trailer, whatever the
\* calls: in particular not by a Write or WriteCompressed made after Close.
C7_NothingAfterTrailer ==
    \A i \in 1..(Len(Lifetime) - 1) : Lifetime[i].kind # "trailer"

\* C8: on a writer closed without error, Write and WriteCompressed do
\* nothing: they return nil, write nothing to the compressor or the
\* destination and leave the checksum, the size, the flags and the error
\* as they were.
C8_ClosedNoOp ==
    [][(checkClosed(z.stateFlags) /\ z.err = NoErr
        /\ last'.op \in {"Write", "WriteCompressed"})
            => (z' = z /\ dest' = dest /\ ret'.err = NoErr)]_vars

\* C9: a Close on a closed writer returns the latched error if there is one
\* and nil otherwise, writes nothing to the destination, does not finalise
\* the compressor again and changes nothing of the writer.
C9_CloseIdempotent ==
    [][(checkClosed(z.stateFlags) /\ last'.op = "Close")
            => (z' = z /\ dest' = dest /\ ret'.err = z.err)]_vars

C9_Witness ==
    /\ last.op = "Close"
    /\ last.closed
    /\ last.err = NoErr
    /\ ret.err = NoErr
    /\ TrailerCount = 1

\* C10: once a call has returned an error of the destination or of the
\* compressor, every later Write, WriteCompressed, Flush and Close, until a
\* Reset, returns that same error, writes nothing to the destination or the
\* compressor and leaves the checksum, the size and the flags as they were.
C10_ErrorLatched ==
    [][(ret.err \in IOErrors /\ last'.op \in CallOps)
            => (ret'.err = ret.err /\ z' = z /\ dest' = dest)]_vars

C10_Witness ==
    /\ last.op \in CallOps
    /\ last.err \in IOErrors
    /\ ret.err = last.err
    /\ z.err = last.err

\* The chunks a step appends to the writer's destination.
Appended == SubSeq(dest'[z.w], Len(dest[z.w]) + 1, Len(dest'[z.w]))

\* C11: once WriteCompressed has rejected a blob with ErrBlob, every later
\* Write, WriteCompressed, Flush and Close returns ErrBlob and writes
\* nothing; a following Close writes no trailer.
C11_BlobErrorLatched ==
    [][(ret.err = ErrBlob /\ last'.op \in CallOps)
            => (ret'.err = ErrBlob /\ dest' = dest)]_vars

\* C12: when WriteCompressed writes a payload to the destination, the
\* compressor holds no unflushed data and the deflate-active flag is clear
\* afterwards; if the flag was set on entry a sync-flush marker was written
\* right before the payload, preceded by the data the compressor held.
C12_FlushBeforeSplice ==
    [][(last'.op = "WriteCompressed"
        /\ \E k \in 1..Len(Appended) : Appended[k].kind = "payload")
            => /\ z'.compressor.buf = <<>>
               /\ ~checkActiveDeflateStream(z'.stateFlags)
               /\ checkActiveDeflateStream(z.stateFlags)
                    => \E k \in 2..Len(Appended) :
                           /\ Appended[k - 1].kind = "sync"
                           /\ Appended[k].kind = "payload"
               /\ z.compressor.buf # <<>>
                    => \E k \in 3..Len(Appended) :
                           /\ Appended[k - 2] = Chunk("block", Stored(z.compressor.buf, 0))
                           /\ Appended[k - 1].kind = "sync"
                           /\ Appended[k].kind = "payload"]_vars

C12_Witness ==
    /\ last.op = "WriteCompressed"
    /\ ret.err = NoErr
    /\ z.compressor.buf = <<>>
    /\ \E k \in 3..Len(Lifetime) :
           /\ Lifetime[k - 2].kind = "block"
           /\ Lifetime[k - 1].kind = "sync"
           /\ Lifetime[k].kind = "payload"
           /\ k = Len(Lifetime)

\* C13: when the last body bytes written before Close are a spliced payload,
\* Close does not finalise the compressor: it writes the trailer only.
C13_NoFinaliseAfterSplice ==
    FirstCloseDone
        => ~(/\ Len(Lifetime) >= 3
             /\ Lifetime[Len(Lifetime) - 2].kind = "payload"
             /\ Lifetime[Len(Lifetime) - 1].kind = "final")

C15_EmptyClose ==
    (ops = 1 /\ last.op = "Close" /\ ret.err = NoErr)
        => /\ Len(dest[1]) = 3
           /\ dest[1][1] = Chunk("header", <<31, 139, 8, 0, 0, 0, 0, 0,
                                              IF z.level = BestCompression THEN 2 ELSE 0,
                                              255>>)
           /\ dest[1][2] = Chunk("final", <<1, 0, 0, 255, 255>>)
           /\ dest[1][3] = Chunk("trailer", <<0, 0, 0, 0, 0, 0, 0, 0>>)
           /\ dest[2] = <<>>

C15_Witness ==
    /\ ops = 1
    /\ last.op = "Close"
    /\ ret.err = NoErr
    /\ Len(dest[1]) = 3

\* C16: Reset, from any state, leaves the three flags clear, the checksum and
\* the size 0, the error nil and the level as it was, and the first write of
\* the next call to the new destination is a header.
C16_Reset ==
    /\ [][last'.op = "Reset"
            => /\ ~checkWroteHeader(z'.stateFlags)
               /\ ~checkClosed(z'.stateFlags)
               /\ ~checkActiveDeflateStream(z'.stateFlags)
               /\ z'.digest = Zero32
               /\ z'.size = Zero32
               /\ z'.err = NoErr
               /\ z'.level = z.level
               /\ z'.compressor.buf = <<>>
               /\ z'.compressor.err = NoErr]_vars
    /\ [][(last.op = "Reset" /\ last'.op \in CallOps /\ dest' # dest)
            => /\ Appended[1].kind = "header"
               /\ \A d \in Dests \ {z.w} : dest'[d] = dest[d]]_vars

C16_Witness ==
    /\ last.op = "Reset"
    /\ last.closed
    /\ last.err \in IOErrors
    /\ z.w = 2
    /\ z.stateFlags = 0
    /\ z.err = NoErr
    /\ dest[1] # <<>>

\* C17: a WriteCompressed call on an open writer without a latched error,
\* given a blob shorter than 18 bytes or one whose first three bytes are not
\* 1f 8b 08, returns ErrBlob, writes no payload chunk to the destination and
\* leaves digest and size as they were.
C17_RejectMalformed ==
    [][(/\ last'.op = "WriteCompressed"
        /\ z.err = NoErr
        /\ ~checkClosed(z.stateFlags)
        /\ \/ Len(last'.blob) < 18
           \/ <<last'.blob[1], last'.blob[2], last'.blob[3]>>
                  # <<gzipID1, gzipID2, gzipDeflate>>)
       => (/\ ret'.err = ErrBlob
           /\ \A k \in 1..Len(Appended) : Appended[k].kind # "payload"
           /\ z'.digest = z.digest
           /\ z'.size = z.size)]_vars

\* A blob of at least 18 bytes with a wrong magic byte was rejected after
\* the pending data of a Write had been sync-flushed.
C17_Witness ==
    /\ last.op = "WriteCompressed"
    /\ Len(last.blob) >= 18
    /\ last.blob[2] # gzipID2
    /\ ~last.closed
    /\ last.err = NoErr
    /\ ret.err = ErrBlob
    /\ CountKind(dest[1], "sync") = 1
    /\ CountKind(dest[1], "payload") = 0

\* C18: when a WriteCompressed call on an open writer without a latched
\* error is given a blob that is exactly one well-formed gzip member, it
\* returns nil and the chunk it wrote last is the payload blob[h : len-8],
\* h being the length of the member's header (each string field with its NUL).
C18_PayloadSlice ==
    (/\ last.op = "WriteCompressed"
     /\ last.err = NoErr
     /\ ~last.closed
     /\ MemberEnd(last.blob) = Len(last.blob))
    => (/\ ret.err = NoErr
        /\ dest[z.w] # <<>>
        /\ dest[z.w][Len(dest[z.w])]
               = Chunk("payload", Slice(last.blob, ReadHeader(last.blob),
                                        Len(last.blob) - 8)))

\* C19: a WriteCompressed call on an open writer without a latched error,
\* given a blob whose name (or, the name being absent or terminated, whose
\* comment) has no zero byte at an index below len-8, returns ErrBlob.
C19_UnterminatedRejected ==
    (/\ last.op = "WriteCompressed"
     /\ last.err = NoErr
     /\ ~last.closed
     /\ Len(last.blob) >= 18
     /\ <<last.blob[1], last.blob[2], last.blob[3]>> = <<gzipID1, gzipID2, gzipDeflate>>
     /\ LET b  == last.blob
            h1 == SkipExtra(b, 10)
            open(h, f) == /\ HasFlag(b, f)
                          /\ h >= 0
                          /\ h <= Len(b) - 8
                          /\ IndexByte(Slice(b, h, Len(b) - 8), 0) < 0
        IN  \/ open(h1, flagName)
            \/ open(SkipString(b, h1, flagName), flagComment))
    => ret.err = ErrBlob

\* C20: a WriteCompressed call on an open writer without a latched error,
\* given a blob that starts with a well-formed member and has more bytes
\* after it, returns ErrBlob and writes no payload chunk.
C20_TrailingRejected ==
    [][(/\ last'.op = "WriteCompressed"
        /\ z.err = NoErr
        /\ ~checkClosed(z.stateFlags)
        /\ MemberEnd(last'.blob) >= 0
        /\ MemberEnd(last'.blob) < Len(last'.blob))
       => (/\ ret'.err = ErrBlob
           /\ \A k \in 1..Len(Appended) : Appended[k].kind # "payload")]_vars

\* C21: NewGzipStreamWriterLevel returns no writer and an error wrapping
\* ErrInvalidCompressionLevel exactly for the levels below HuffmanOnly or
\* above BestCompression; for every other level it returns nil as the error
\* and a writer of that level with no flag set, digest 0, size 0, no latched
\* error and OS 255.
C21_Construct ==
    last.op = "New" =>
        IF "nil" \in DOMAIN z
        THEN \E l \in LevelInputs :
                 /\ l < HuffmanOnly \/ l > BestCompression
                 /\ ret.err = ErrorfInt(ErrInvalidCompressionLevel, l)
        ELSE /\ ret.err = NoErr
             /\ z.level \in HuffmanOnly..BestCompression
             /\ z.stateFlags = 0
             /\ z.digest = Zero32
             /\ z.size = Zero32
             /\ z.err = NoErr
             /\ z.OS = 255

\* Construction at level 10 returned no writer.
C21_Witness ==
    /\ last.op = "New"
    /\ "nil" \in DOMAIN z
    /\ ret.err = ErrorfInt(ErrInvalidCompressionLevel, BestCompression + 1)

\* C22: a Flush call appends no trailer to any destination, leaves the
\* closed flag, digest and size as they were; and when every call before a
\* Close that returned nil was a Flush that wrote its sync marker, the last
\* chunk written is the trailer with CRC32 0 and ISIZE 0.
C22_FlushFrame ==
    /\ [][last'.op = "Flush"
          => (/\ \A d \in Dests :
                    CountKind(dest'[d], "trailer") = CountKind(dest[d], "trailer")
              /\ checkClosed(z'.stateFlags) = checkClosed(z.stateFlags)
              /\ z'.digest = z.digest
              /\ z'.size = z.size)]_vars
    /\ []((/\ last.op = "Close"
           /\ ret.err = NoErr
           /\ CountKind(dest[1], "sync") = ops - 1)
          => dest[1][Len(dest[1])] = Chunk("trailer", <<0, 0, 0, 0, 0, 0, 0, 0>>))

\* Flush, Flush, Close on a fresh writer.
C22_Witness ==
    /\ ops = 3
    /\ last.op = "Close"
    /\ ret.err = NoErr
    /\ CountKind(dest[1], "sync") = 2
    /\ CountKind(dest[1], "trailer") = 1

\* The data the chunks of a destination hold: that of the compressor's
\* blocks and that of the spliced payloads, in the order written.
RECURSIVE Committed(_)
Committed(chunks) ==
    IF chunks = <<>> THEN <<>>
    ELSE Let(Head(chunks), LAMBDA c :
             IF c.kind = "block" THEN Slice(c.bytes, 5, Len(c.bytes))
             ELSE IF c.kind = "payload"
             THEN Inflate(c.bytes, [ok |-> TRUE, pos |-> 0, out |-> <<>>]).out
             ELSE <<>>) \o Committed(Tail(chunks))

\* C23: right after a Flush made on an open writer that returned nil, the
\* header is written (flag set, first chunk of the lifetime), the
\* deflate-active flag is clear, the compressor holds no data, and the data
\* in the destination is all the content of the calls that succeeded.
C23_FlushCommits ==
    (last.op = "Flush" /\ ret.err = NoErr /\ ~last.closed)
    => (/\ checkWroteHeader(z.stateFlags)
        /\ Lifetime # <<>>
        /\ Lifetime[1].kind = "header"
        /\ ~checkActiveDeflateStream(z.stateFlags)
        /\ z.compressor.buf = <<>>
        /\ Committed(Lifetime) = content)

\* Write("A"), Write("fo"), Flush: one block holding the three bytes.
C23_Witness ==
    /\ last.op = "Flush"
    /\ ret.err = NoErr
    /\ ~last.closed
    /\ content = <<65, 102, 111>>
    /\ CountKind(Lifetime, "block") = 1
    /\ Lifetime[Len(Lifetime)].kind = "sync"

C26_HeaderFixedBytes ==
    "nil" \notin DOMAIN z =>
        \A i \in 1..Len(dest[1]) : dest[1][i].kind = "header" =>
            LET h == dest[1][i].bytes
            IN  /\ h[9] = (CASE z.level = BestCompression -> 2
                             [] z.level = BestSpeed -> 4
                             [] OTHER -> 0)
                /\ h[5] + 256 * h[6] + 65536 * h[7] + 16777216 * h[8]
                       = (IF z.ModTime > 0 THEN z.ModTime ELSE 0)
                /\ h[10] = z.OS

\* A BestSpeed writer with ModTime 0x010203 and OS 3 emitted its header.
C26_Witness ==
    /\ "nil" \notin DOMAIN z
    /\ z.level = BestSpeed
    /\ dest[1] # <<>>
    /\ SubSeq(dest[1][1].bytes, 5, 10) = <<3, 2, 1, 0, 4, 3>>

\* C27: when the writer's Extra is longer than 65535 bytes, or its Name or
\* Comment holds a rune that is 0 or above 0xff, every call made on it
\* returns ErrHdrExtaDataTooLarge (for Extra) or ErrHdrNonLatin1, that error
\* is latched in z.err, and the destinations hold no chunk of the first
\* offending field, no compressor output, no payload and no trailer.
C27_HeaderRejected ==
    "nil" \notin DOMAIN z =>
        LET bad(s) == \E i \in 1..Len(s) : s[i] = 0 \/ s[i] > 255
            long   == ~z.Extra.nil /\ Len(z.Extra.b) > 65535
            field  == IF long THEN "extra"
                      ELSE IF bad(z.Name) THEN "name" ELSE "comment"
            expect == IF long THEN ErrHdrExtaDataTooLarge ELSE ErrHdrNonLatin1
        IN  (last.op \in CallOps /\ (long \/ bad(z.Name) \/ bad(z.Comment)))
            => /\ ret.err = expect
               /\ z.err = expect
               /\ \A d \in Dests : \A i \in 1..Len(dest[d]) :
                      dest[d][i].kind \notin
                          {field, "block", "sync", "final", "payload", "trailer"}

\* A Comment holding a NUL behind a valid Name: the first call failed, the
\* second, a Close, returned the latched error; the Name is in the
\* destination.
C27_Witness ==
    /\ "nil" \notin DOMAIN z
    /\ ops = 3
    /\ last.op = "Close"
    /\ last.err = ErrHdrNonLatin1
    /\ ret.err = ErrHdrNonLatin1
    /\ z.Comment = <<0, 99>>
    /\ Len(dest[1]) = 3
    /\ dest[1][2] = Chunk("name", <<110>>)

\* C28: a Write(p) made on an open writer that returns nil returns len(p),
\* leaves the deflate-active flag set and the compressor holding what it
\* held followed by p; and after Write(nil) as the first call the
\* destination holds the header alone and digest and size are 0.
C28_Write ==
    /\ [][(last'.op = "Write" /\ ret'.err = NoErr /\ ~checkClosed(z.stateFlags))
          => LET p == SubSeq(content', Len(content) + 1, Len(content'))
             IN  /\ ret'.n = Len(p)
                 /\ checkActiveDeflateStream(z'.stateFlags)
                 /\ z'.compressor.buf = z.compressor.buf \o p
                 /\ \A d \in Dests : \A i \in (Len(dest[d]) + 1)..Len(dest'[d]) :
                        dest'[d][i].kind \in {"header", "extra", "name", "comment"}]_vars
    /\ []((ops = 1 /\ last.op = "Write" /\ ret.err = NoErr /\ content = <<>>)
          => /\ Len(dest[1]) = 1
             /\ dest[1][1].kind = "header"
             /\ dest[2] = <<>>
             /\ z.digest = Zero32
             /\ z.size = Zero32)

\* Write("A"), Write("fo"): 2 returned, three bytes with the compressor,
\* the header alone in the destination.
C28_Witness ==
    /\ ops = 2
    /\ last.op = "Write"
    /\ ret = [n |-> 2, err |-> NoErr]
    /\ z.compressor.buf = <<65, 102, 111>>
    /\ checkActiveDeflateStream(z.stateFlags)
    /\ Len(dest[1]) = 1

\* C29: no step other than a Reset clears the closed flag or the
\* wroteHeader flag once it is set, and a Reset clears both.
C29_FlagsMonotone ==
    [][/\ last'.op # "Reset"
          => /\ checkClosed(z.stateFlags) => checkClosed(z'.stateFlags)
             /\ checkWroteHeader(z.stateFlags) => checkWroteHeader(z'.stateFlags)
       /\ last'.op = "Reset"
          => /\ ~checkClosed(z'.stateFlags)
             /\ ~checkWroteHeader(z'.stateFlags)]_vars

\* A WriteCompressed made on a closed writer left both flags set.
C29_Witness ==
    /\ last.op = "WriteCompressed"
    /\ last.closed
    /\ ret.err = NoErr
    /\ checkClosed(z.stateFlags)
    /\ checkWroteHeader(z.stateFlags)

\* C30: a Flush call made on a closed writer with no latched error returns
\* nil and changes neither the destinations nor the writer.
C30_FlushClosed ==
    [][(last'.op = "Flush" /\ checkClosed(z.stateFlags) /\ z.err = NoErr)
       => (ret'.err = NoErr /\ dest' = dest /\ z' = z)]_vars

\* Flush after a Close that wrote the trailer: the trailer is still the
\* last chunk.
C30_Witness ==
    /\ last.op = "Flush"
    /\ last.closed
    /\ last.err = NoErr
    /\ ret.err = NoErr
    /\ CountKind(Lifetime, "trailer") = 1
    /\ Lifetime[Len(Lifetime)].kind = "trailer"

\* C31: while the writer is open and has no latched error, the compressor
\* holds data only when the deflate-active flag is set; and a step that
\* clears the flag is a Reset, or a Flush or WriteCompressed call, which,
\* unless it latched an error, added a sync marker and left the compressor
\* empty.
C31_ActiveWhilePending ==
    /\ []((~checkClosed(z.stateFlags) /\ z.err = NoErr /\ z.compressor.buf # <<>>)
          => checkActiveDeflateStream(z.stateFlags))
    /\ [][(checkActiveDeflateStream(z.stateFlags)
           /\ ~checkActiveDeflateStream(z'.stateFlags))
          => \/ last'.op = "Reset"
             \/ /\ last'.op \in {"Flush", "WriteCompressed"}
                /\ z'.err = NoErr
                   => /\ z'.compressor.buf = <<>>
                      /\ CountKind(dest'[z.w], "sync") = CountKind(dest[z.w], "sync") + 1]_vars

\* Write("A"), Flush, Write("fo"): the flag is set again and the compressor
\* holds "fo".
C31_Witness ==
    /\ ops = 3
    /\ last.op = "Write"
    /\ ret.err = NoErr
    /\ checkActiveDeflateStream(z.stateFlags)
    /\ z.compressor.buf = <<102, 111>>
    /\ CountKind(dest[1], "sync") = 1

\* C32: for every blob given to WriteCompressed, every index the parser
\* reads is below len(blob) and every slice bound is at most len(blob); the
\* call returns nil or ErrBlob; and when it returns nil the payload written
\* is blob[h : len-8] for the header length h, with 10 <= h <= len-8.
C32_ParseInBounds ==
    last.op = "WriteCompressed" =>
        LET b == last.blob
            n == Len(b)
            r == WriteCompressedReads(b)
        IN  /\ \A i \in r.reads : 0 <= i /\ i < n
            /\ \A c \in r.cuts : 0 <= c /\ c <= n
            /\ n >= 18 => r.h = getHeaderLength(b)
            /\ ret.err \in {NoErr, ErrBlob}
            /\ ret.err = NoErr
               => /\ r.h >= 10
                  /\ r.h <= n - 8
                  /\ dest[1][Len(dest[1])] = Chunk("payload", Slice(b, r.h, n - 8))

\* A blob of 23 bytes with every flag bit set was accepted: an extra field
\* of one byte, an empty name and an empty comment, two bytes of header CRC,
\* and no payload.
C32_Witness ==
    /\ last.op = "WriteCompressed"
    /\ Len(last.blob) = 23
    /\ last.blob[4] = 255
    /\ Uint16At(last.blob, 11) = 1
    /\ ret.err = NoErr
    /\ getHeaderLength(last.blob) = 15

\* C33: a WriteCompressed call on an open, error-free writer that rejects its
\* blob with ErrBlob has by then written the header and the pending
\* sync-flush: the header-written flag is set and a header is the first
\* chunk the call wrote; if raw data was pending, its block and the sync
\* marker follow, the deflate-active flag is clear and the compressor holds
\* no data; nothing of the blob is written and no error is latched.
C33_RejectAfterEmit ==
    [][(/\ last'.op = "WriteCompressed"
        /\ ret'.err = ErrBlob
        /\ z.err = NoErr
        /\ ~checkClosed(z.stateFlags))
       => /\ checkWroteHeader(z'.stateFlags)
          /\ Appended # <<>>
          /\ Appended[1].kind = "header"
          /\ ~checkActiveDeflateStream(z'.stateFlags)
          /\ z'.compressor.buf = <<>>
          /\ checkActiveDeflateStream(z.stateFlags)
             => Appended = <<Appended[1]>> \o Pending(z.compressor)
                               \o <<Chunk("sync", SyncMarker)>>
          /\ ~checkActiveDeflateStream(z.stateFlags) => Len(Appended) = 1
          /\ z'.err = NoErr]_vars

\* Write("fo"), then a blob with a wrong magic byte: header, header again,
\* the block of "fo" and the sync marker are in the destination.
C33_Witness ==
    /\ ops = 2
    /\ last.op = "WriteCompressed"
    /\ last.blob \in BadMagicBlobs
    /\ ret.err = ErrBlob
    /\ checkWroteHeader(z.stateFlags)
    /\ ~checkActiveDeflateStream(z.stateFlags)
    /\ CountKind(dest[1], "block") = 1
    /\ dest[1][Len(dest[1]) - 1] = Chunk("block", Stored(<<102, 111>>, 0))
    /\ dest[1][Len(dest[1])].kind = "sync"

\* C34: Reset writes nothing and leaves the compressor empty and bound to
\* the new destination; every other step leaves every destination but the
\* writer's current one unchanged, so the destination a Reset left is never
\* written again; and the data in the current destination since the last
\* Reset is a prefix of the content of the calls that succeeded since then,
\* so data pending at a Reset reaches no destination.
C34_ResetDropsPending ==
    /\ [](/\ z.compressor.alloc => z.compressor.w = z.w
          /\ Len(Committed(Lifetime)) <= Len(content)
          /\ Committed(Lifetime) = SubSeq(content, 1, Len(Committed(Lifetime))))
    /\ [][/\ last'.op = "Reset" => (dest' = dest /\ z'.compressor.buf = <<>>)
          /\ last'.op # "Reset"
             => (z'.w = z.w /\ \A d \in Dests \ {z.w} : dest'[d] = dest[d])]_vars

\* Write("fo"), Reset onto the second destination, Write("A"), Close: the
\* first destination holds its header alone, the second the member of "A".
C34_Witness ==
    /\ ops = 4
    /\ last.op = "Close"
    /\ ret.err = NoErr
    /\ z.w = 2
    /\ start = 0
    /\ Len(dest[1]) = 1
    /\ content = <<65>>
    /\ Committed(dest[2]) = <<65>>
    /\ Committed(dest[1]) = <<>>
    /\ CountKind(dest[2], "trailer") = 1

\* C35: Reset leaves Extra nil, Name and Comment empty, ModTime unset and
\* OS = 255, whatever they were; and the header that the call right after a
\* Reset writes has no flag bit set, a zero MTIME and OS 255, and no extra,
\* name or comment field behind it.
C35_ResetHeaderDefaults ==
    /\ [][last'.op = "Reset"
            => /\ z'.Extra = DefaultHeader.Extra
               /\ z'.Extra.nil
               /\ z'.Name = <<>>
               /\ z'.Comment = <<>>
               /\ z'.ModTime = DefaultHeader.ModTime
               /\ z'.OS = 255]_vars
    /\ [][(last.op = "Reset" /\ last'.op \in CallOps /\ dest' # dest)
            => /\ Appended[1].kind = "header"
               /\ SubSeq(Appended[1].bytes, 1, 8) = <<gzipID1, gzipID2, gzipDeflate, 0, 0, 0, 0, 0>>
               /\ Appended[1].bytes[10] = 255
               /\ Len(Appended) > 1
                  => Appended[2].kind \notin {"extra", "name", "comment"}]_vars

\* The header fields set, a Write, Reset onto the second destination, a
\* Write: the first destination starts with the header that was set (flags
\* FEXTRA, FNAME and FCOMMENT, OS 3) and its extra field, the second with
\* the default header.
C35_Witness ==
    /\ ops = 4
    /\ last.op = "Write"
    /\ z.w = 2
    /\ dest[1] # <<>>
    /\ dest[1][1].bytes[4] = flagExtra + flagName + flagComment
    /\ dest[1][1].bytes[10] = 3
    /\ dest[1][2].kind = "extra"
    /\ Len(dest[2]) = 1
    /\ dest[2][1].kind = "header"
    /\ dest[2][1].bytes[4] = 0
    /\ dest[2][1].bytes[10] = 255
    /\ z.OS = 255

\* C36: right after a Close made on an open, error-free writer the closed
\* flag is set whatever the call returned, and the error it returned is the
\* latched one; when it failed, no trailer is in the destination.  While an
\* error is latched it stays latched and the writer stays closed until a
\* Reset, and a Close made then returns that error, writes nothing and
\* changes nothing.
C36_CloseFailLatched ==
    /\ []((last.op = "Close" /\ ~last.closed /\ last.err = NoErr)
          => /\ checkClosed(z.stateFlags)
             /\ z.err = ret.err
             /\ ret.err # NoErr => (ret.err \in IOErrors /\ TrailerCount = 0))
    /\ [][(z.err # NoErr /\ last'.op # "Reset")
            => /\ z'.err = z.err
               /\ checkClosed(z.stateFlags) => checkClosed(z'.stateFlags)
               /\ last'.op = "Close"
                  => (ret'.err = z.err /\ dest' = dest /\ z' = z)]_vars

\* Write("A"), a Close whose trailer write fails, and Close again: the final
\* block is in the destination, no trailer is, and the second Close returns
\* the error of the first.
C36_Witness ==
    /\ ops = 3
    /\ last.op = "Close"
    /\ last.closed
    /\ last.err = ErrSink
    /\ ret.err = ErrSink
    /\ checkClosed(z.stateFlags)
    /\ CountKind(dest[1], "final") = 1
    /\ CountKind(dest[1], "block") = 1
    /\ TrailerCount = 0

\* C37: a fresh writer has its three flags false; setWroteHeader, setClosed
\* and setActiveDeflateStream each make their own check* helper read the
\* value they were given, change no bit of stateFlags but their own (bit 0,
\* bit 1, bit 2), and leave what the other two helpers read unchanged.
C37_FlagsIndependent ==
    /\ [](ops = 0 => /\ z.stateFlags = 0
                     /\ ~checkWroteHeader(z.stateFlags)
                     /\ ~checkClosed(z.stateFlags)
                     /\ ~checkActiveDeflateStream(z.stateFlags))
    /\ [][/\ last'.op = "setWroteHeader"
             => /\ checkWroteHeader(z'.stateFlags) = (last'.blob = <<1>>)
                /\ checkClosed(z'.stateFlags) = checkClosed(z.stateFlags)
                /\ checkActiveDeflateStream(z'.stateFlags)
                       = checkActiveDeflateStream(z.stateFlags)
                /\ z'.stateFlags \div 2 = z.stateFlags \div 2
          /\ last'.op = "setClosed"
             => /\ checkClosed(z'.stateFlags) = (last'.blob = <<1>>)
                /\ checkWroteHeader(z'.stateFlags) = checkWroteHeader(z.stateFlags)
                /\ checkActiveDeflateStream(z'.stateFlags)
                       = checkActiveDeflateStream(z.stateFlags)
                /\ z'.stateFlags % 2 = z.stateFlags % 2
                /\ z'.stateFlags \div 4 = z.stateFlags \div 4
          /\ last'.op = "setActiveDeflateStream"
             => /\ checkActiveDeflateStream(z'.stateFlags) = (last'.blob = <<1>>)
                /\ checkWroteHeader(z'.stateFlags) = checkWroteHeader(z.stateFlags)
                /\ checkClosed(z'.stateFlags) = checkClosed(z.stateFlags)
                /\ z'.stateFlags % 4 = z.stateFlags % 4
                /\ z'.stateFlags \div 8 = z.stateFlags \div 8]_vars

\* All three flags were set and setClosed(false) was called then: the
\* closed flag alone is clear.
C37_Witness ==
    /\ ops = 4
    /\ last.op = "setClosed"
    /\ last.blob = <<0>>
    /\ last.closed
    /\ z.stateFlags = 5
    /\ checkWroteHeader(z.stateFlags)
    /\ ~checkClosed(z.stateFlags)
    /\ checkActiveDeflateStream(z.stateFlags)

====
